---------------------------- MODULE Spec2Model ----------------------------
(***************************************************************************)
(* VK-to-TG-post: a poll cycle fetches the wall posts of a VK community,   *)
(* skips the posts whose key is in the dedup ledger, and republishes each  *)
(* new post to a Telegram channel.                                         *)
(*                                                                         *)
(* Strings that the code inspects character by character (artist, title,   *)
(* document title) are sequences of one-character strings; "ya" and "YA"   *)
(* stand for one Cyrillic letter in lower and upper case.  Strings the     *)
(* code only passes on (post text) are TLA+ strings, and a URL is a        *)
(* positive number.  A missing (undefined) optional value and the empty    *)
(* string are both falsy in the code and are both the empty value here:    *)
(* "" for a string, <<>> for a character sequence, 0 for a URL.            *)
(***************************************************************************)
EXTENDS Integers, Sequences, FiniteSets, TLC

(***************************************************************************)
(* Bounds of the model.                                                    *)
(***************************************************************************)
MaxAtt == 1
MaxPhotos == 11
MaxBatch == 1
NumPosts == 1
BatchPosts == 2
MaxExtract == 2         \* attachments of an item given to the extractors on their own
MaxLen == 3             \* length of the strings whose similarity is computed
MaxTracks == 2          \* candidates in a list given to findBestAudioMatch
MaxKeys == 3            \* keys the ledger specification marks
MaxDispatches == 2   \* the history variable dispatches counts up to this many runs per key
MaxTitle == 2           \* length of the titles given to normalizeString

(***************************************************************************)
(* Program constants.                                                      *)
(***************************************************************************)
GifDocType == 3
MediaGroupLimit == 10
ArtistWeight == 6
TitleWeight == 4
MatchThreshold == 7
ScoreScale == 10

(***************************************************************************)
(* Generic helpers.                                                        *)
(***************************************************************************)
Range(s) == {s[i] : i \in 1..Len(s)}

Max2(a, b) == IF a >= b THEN a ELSE b

Min2(a, b) == IF a <= b THEN a ELSE b

\* Variant: the batch is walked in the fetched order.
Reverse_FetchedOrder(s) == s

Reverse(s) == [i \in 1..Len(s) |-> s[Len(s) + 1 - i]]

SeqsUpTo(S, n) == UNION {[1..k -> S] : k \in 0..n}

RECURSIVE FilterSeq(_, _)
FilterSeq(s, keep) ==
    IF s = <<>> THEN <<>>
    ELSE IF Head(s) \in keep THEN <<Head(s)>> \o FilterSeq(Tail(s), keep)
         ELSE FilterSeq(Tail(s), keep)

\* JavaScript truthiness of a string.
Truthy(x) == x # ""

TruthySeq(x) == x # <<>>

(***************************************************************************)
(* Characters.                                                             *)
(***************************************************************************)
AsciiLower == {"a", "b", "g", "i", "f", "p", "d"}
AsciiUpper == {"A", "B", "G", "I", "F"}
Digits == {"1"}
WhiteSpace == {" "}
CyrLower == {"ya"}
CyrUpper == {"YA"}

ToLowerChar(c) ==
    CASE c = "A" -> "a"
      [] c = "B" -> "b"
      [] c = "G" -> "g"
      [] c = "I" -> "i"
      [] c = "F" -> "f"
      [] c = "YA" -> "ya"
      [] OTHER -> c

toLowerCase(s) == [i \in 1..Len(s) |-> ToLowerChar(s[i])]

\* The class \w of a JavaScript regular expression without the u flag.
WordChars == AsciiLower \cup AsciiUpper \cup Digits \cup {"_"}

RECURSIVE CollapseSpaces(_)
CollapseSpaces(s) ==
    IF Len(s) < 2 THEN s
    ELSE IF s[1] \in WhiteSpace /\ s[2] \in WhiteSpace
         THEN CollapseSpaces(Tail(s))
         ELSE <<IF s[1] \in WhiteSpace THEN " " ELSE s[1]>> \o CollapseSpaces(Tail(s))

RECURSIVE TrimLeft(_)
TrimLeft(s) ==
    IF s # <<>> /\ Head(s) \in WhiteSpace THEN TrimLeft(Tail(s)) ELSE s

Trim(s) == Reverse(TrimLeft(Reverse(TrimLeft(s))))

normalizeString(str) ==
    IF ~TruthySeq(str) THEN <<>>
    ELSE Trim(CollapseSpaces(
             FilterSeq(toLowerCase(str), WordChars \cup WhiteSpace)))

(***************************************************************************)
(* Fuzzy matcher.  A similarity is the exact rational num/den.             *)
(***************************************************************************)
Includes(s, t) ==
    \E i \in 0..(Len(s) - Len(t)) : SubSeq(s, i + 1, i + Len(t)) = t

EndsWith(s, t) ==
    Len(s) >= Len(t) /\ SubSeq(s, Len(s) - Len(t) + 1, Len(s)) = t

Min3(a, b, c) == Min2(a, Min2(b, c))

\* Variant: every character of both strings counts as an edit.
levenshteinDistance_AllEdits(str1, str2) == Len(str1) + Len(str2)

levenshteinDistance(str1, str2) ==
    LET m == Len(str1)
        n == Len(str2)
        dp[i \in 0..m, j \in 0..n] ==
            IF j = 0 THEN i
            ELSE IF i = 0 THEN j
            ELSE LET cost == IF str1[i] = str2[j] THEN 0 ELSE 1
                 IN  Min3(dp[i - 1, j] + 1, dp[i, j - 1] + 1, dp[i - 1, j - 1] + cost)
    IN  dp[m, n]

calculateStringSimilarity(str1, str2) ==
    IF ~TruthySeq(str1) /\ ~TruthySeq(str2) THEN [num |-> 1, den |-> 1]
    ELSE IF ~TruthySeq(str1) \/ ~TruthySeq(str2) THEN [num |-> 0, den |-> 1]
    ELSE IF str1 = str2 THEN [num |-> 1, den |-> 1]
    ELSE IF Includes(str1, str2) \/ Includes(str2, str1)
         THEN [num |-> Min2(Len(str1), Len(str2)), den |-> Max2(Len(str1), Len(str2))]
    ELSE LET maxLength == Max2(Len(str1), Len(str2))
         IN  [num |-> maxLength - levenshteinDistance(str1, str2), den |-> maxLength]

\* totalScore = 0.6 * artistSimilarity + 0.4 * titleSimilarity, as a rational.
TotalScore(track, targetArtist, targetTitle) ==
    LET a == calculateStringSimilarity(normalizeString(targetArtist),
                                       normalizeString(track.artist))
        t == calculateStringSimilarity(normalizeString(targetTitle),
                                       normalizeString(track.title))
    IN  [num |-> ArtistWeight * a.num * t.den + TitleWeight * t.num * a.den,
         den |-> ScoreScale * a.den * t.den]

ScoreLess(x, y) == x.num * y.den < y.num * x.den

ScoreAtLeastThreshold(x) == ScoreScale * x.num >= MatchThreshold * x.den

\* Variant: the list is not sorted, its first track is taken.
BestIndex_Unsorted(tracks, targetArtist, targetTitle) == 1

\* Index of scoredTracks[0] after the stable descending sort: the first track
\* that no other track outscores.
BestIndex(tracks, targetArtist, targetTitle) ==
    LET sc(i) == TotalScore(tracks[i], targetArtist, targetTitle)
    IN  CHOOSE i \in 1..Len(tracks) :
            /\ \A j \in 1..Len(tracks) : ~ScoreLess(sc(i), sc(j))
            /\ \A j \in 1..(i - 1) : ScoreLess(sc(j), sc(i))

NoTrack == [id |-> 0, artist |-> <<>>, title |-> <<>>, url |-> ""]

\* null is NoTrack (id 0); real tracks have id >= 1.
findBestAudioMatch(tracks, targetArtist, targetTitle) ==
    IF tracks = <<>> THEN NoTrack
    ELSE LET b == BestIndex(tracks, targetArtist, targetTitle)
         IN  IF ScoreAtLeastThreshold(TotalScore(tracks[b], targetArtist, targetTitle))
             THEN tracks[b]
             ELSE NoTrack

(***************************************************************************)
(* VK posts and their attachments.  An attachment is                       *)
(*   [type, nested, sizes, ext, doctype, title, artist, url]               *)
(* where nested says whether the object attachment[type] is present; the   *)
(* other fields are those of that nested object (defaults where the type   *)
(* has no such field).                                                     *)
(***************************************************************************)
NoUrl == 0

HasUrl(u) == u # NoUrl

Att(type, nested, sizes, ext, doctype, title, artist, url) ==
    [type |-> type, nested |-> nested, sizes |-> sizes, ext |-> ext,
     doctype |-> doctype, title |-> title, artist |-> artist, url |-> url]

Size(width, height, url) == [width |-> width, height |-> height, url |-> url]

Area(sz) == sz.width * sz.height

\* Variant: a sort that puts the later of two equal renditions first.
RECURSIVE InsertBySize_TiesFirst(_, _)
InsertBySize_TiesFirst(sorted, sz) ==
    IF sorted = <<>> THEN <<sz>>
    ELSE IF Area(Head(sorted)) > Area(sz)
         THEN <<Head(sorted)>> \o InsertBySize_TiesFirst(Tail(sorted), sz)
         ELSE <<sz>> \o sorted

\* Array.prototype.sort with (a, b) => area(b) - area(a): stable, descending.
RECURSIVE InsertBySize(_, _)
InsertBySize(sorted, sz) ==
    IF sorted = <<>> THEN <<sz>>
    ELSE IF Area(Head(sorted)) >= Area(sz)
         THEN <<Head(sorted)>> \o InsertBySize(Tail(sorted), sz)
         ELSE <<sz>> \o sorted

RECURSIVE SortSizes(_)
SortSizes(sizes) ==
    IF sizes = <<>> THEN <<>>
    ELSE InsertBySize(SortSizes(SubSeq(sizes, 1, Len(sizes) - 1)), sizes[Len(sizes)])

MapSeq(s, F(_)) == [i \in 1..Len(s) |-> F(s[i])]

OfType(atts, type) == SelectSeq(atts, LAMBDA a : a.type = type)

\* getPhotoAttachments throws a TypeError on a photo attachment without the
\* nested photo object, or whose sizes list is empty.
PhotoThrows(post) ==
    \E i \in 1..Len(post.attachments) :
        /\ post.attachments[i].type = "photo"
        /\ ~post.attachments[i].nested \/ post.attachments[i].sizes = <<>>

getPhotoAttachments(post) ==
    MapSeq(OfType(post.attachments, "photo"), LAMBDA a : SortSizes(a.sizes)[1].url)

GifSuffix == <<".", "g", "i", "f">>

IsGifDoc(a) ==
    \/ a.ext = "gif"
    \/ a.doctype = GifDocType
    \/ TruthySeq(a.title) /\ EndsWith(toLowerCase(a.title), GifSuffix)

getGifAttachments(post) ==
    MapSeq(SelectSeq(post.attachments,
                      LAMBDA a : a.type = "doc" /\ a.nested /\ IsGifDoc(a)),
           LAMBDA a : a.url)

AudioThrows(post) ==
    \E i \in 1..Len(post.attachments) :
        post.attachments[i].type = "audio" /\ ~post.attachments[i].nested

AudioRef(url, artist, title) == [url |-> url, artist |-> artist, title |-> title]

getAudioAttachments(post) ==
    MapSeq(OfType(post.attachments, "audio"),
           LAMBDA a : AudioRef(a.url, a.artist, a.title))

LinkThrows(post) ==
    \E i \in 1..Len(post.attachments) :
        post.attachments[i].type = "link" /\ ~post.attachments[i].nested

getLinkAttachments(post) ==
    MapSeq(OfType(post.attachments, "link"), LAMBDA a : a.url)

DocRef(url, title, ext) == [url |-> url, title |-> title, ext |-> ext]

\* Variant: the generic-document list keeps the animations.
getDocumentAttachments_WithGifs(post) ==
    MapSeq(SelectSeq(post.attachments, LAMBDA a : a.type = "doc" /\ a.nested),
           LAMBDA a : DocRef(a.url, a.title, a.ext))

getDocumentAttachments(post) ==
    MapSeq(SelectSeq(post.attachments,
                      LAMBDA a : a.type = "doc" /\ a.nested /\ ~IsGifDoc(a)),
           LAMBDA a : DocRef(a.url, a.title, a.ext))

\* The post key `${post.owner_id}_${post.id}`.
PostKey(post) == <<post.owner_id, post.id>>

(***************************************************************************)
(* The posts the wall can serve.  The attachment at position i of a post   *)
(* has URL i (a photo: its largest rendition; 100 + i is the small one).   *)
(***************************************************************************)
OwnerIds == {-1}

PostIds == 1..NumPosts

PostTexts == {"", "hello"}

CoreKinds == {"photo", "gif", "doc", "audioUrl", "audioNoUrl", "audioNoTitle",
              "link", "badPhoto", "badAudio", "badLink"}

TitleGifUpper == <<"a", ".", "G", "I", "F">>
TitleGif == <<"a", ".", "g", "i", "f">>
TitlePdf == <<"d", ".", "p", "d", "f">>
ArtistA == <<"A">>
TitleB == <<"B">>

MkAtt(kind, i) ==
    CASE kind = "photo" ->
           Att("photo", TRUE, <<Size(1, 1, 100 + i), Size(2, 2, i)>>, "", 0, <<>>, <<>>, NoUrl)
      [] kind = "photoTie" ->
           Att("photo", TRUE, <<Size(1, 1, 200 + i), Size(2, 2, i), Size(4, 1, 100 + i)>>,
               "", 0, <<>>, <<>>, NoUrl)
      [] kind = "photoNoSizes" ->
           Att("photo", TRUE, <<>>, "", 0, <<>>, <<>>, NoUrl)
      [] kind = "badPhoto" ->
           Att("photo", FALSE, <<>>, "", 0, <<>>, <<>>, NoUrl)
      [] kind = "gif" ->
           Att("doc", TRUE, <<>>, "gif", GifDocType, TitleGif, <<>>, i)
      [] kind = "gifByTitle" ->
           Att("doc", TRUE, <<>>, "", 0, TitleGifUpper, <<>>, i)
      [] kind = "gifByType" ->
           Att("doc", TRUE, <<>>, "", GifDocType, <<>>, <<>>, i)
      [] kind = "doc" ->
           Att("doc", TRUE, <<>>, "pdf", 1, TitlePdf, <<>>, i)
      [] kind = "docNoNested" ->
           Att("doc", FALSE, <<>>, "", 0, <<>>, <<>>, NoUrl)
      [] kind = "audioUrl" ->
           Att("audio", TRUE, <<>>, "", 0, TitleB, ArtistA, i)
      [] kind = "audioNoUrl" ->
           Att("audio", TRUE, <<>>, "", 0, TitleB, ArtistA, NoUrl)
      [] kind = "audioNoTitle" ->
           Att("audio", TRUE, <<>>, "", 0, <<>>, ArtistA, NoUrl)
      [] kind = "badAudio" ->
           Att("audio", FALSE, <<>>, "", 0, <<>>, <<>>, NoUrl)
      [] kind = "link" ->
           Att("link", TRUE, <<>>, "", 0, <<>>, <<>>, i)
      [] kind = "badLink" ->
           Att("link", FALSE, <<>>, "", 0, <<>>, <<>>, NoUrl)
      [] OTHER ->
           Att("video", TRUE, <<>>, "", 0, <<>>, <<>>, NoUrl)

MkAtts(kinds) == [i \in 1..Len(kinds) |-> MkAtt(kinds[i], i)]

\* Every list of at most MaxAtt attachments, every run of at most MaxPhotos
\* photos, and some longer lists that mix the media types.
MixedLists ==
    {<<"photo", "gif", "audioUrl", "doc">>,
     <<"doc", "audioUrl", "gif", "photo", "photo">>,
     <<"gif", "gif", "audioNoUrl", "doc", "doc">>,
     <<"audioNoUrl", "audioUrl", "audioUrl">>,
     <<"link", "audioNoTitle", "audioNoUrl", "photo">>,
     <<"photo", "doc">>,
     <<"doc", "doc">>,
     <<"photo", "audioNoUrl">>,
     <<"audioNoUrl", "audioNoUrl">>,
     <<"link", "audioNoUrl">>,
     <<"audioNoUrl", "badLink">>,
     <<"photo", "photo", "badLink">>,
     <<"audioUrl", "badPhoto">>}

KindLists ==
    SeqsUpTo(CoreKinds, MaxAtt)
        \cup {[i \in 1..n |-> "photo"] : n \in 0..MaxPhotos}
        \cup MixedLists

AttachmentLists == {MkAtts(kinds) : kinds \in KindLists}

Post(id, owner, txt, pinned, atts) ==
    [id |-> id, owner_id |-> owner, text |-> txt, is_pinned |-> pinned,
     attachments |-> atts]

NoPost == Post(0, 0, "", FALSE, <<>>)

\* The posts with a given id that wall.get can return.
PostsWithId(id) ==
    {Post(id, o, t, FALSE, a) : o \in OwnerIds, t \in PostTexts, a \in AttachmentLists}

AllKeys == OwnerIds \X PostIds

\* Batches of several posts: distinct ids, newest first, each post of one of
\* a few shapes (text only, malformed photo, photo and document, audio to
\* look up).
BatchIds == 1..BatchPosts

BatchKeys == OwnerIds \X BatchIds

Batches ==
    {b \in SeqsUpTo(BatchIds, BatchPosts) : \A i, j \in 1..Len(b) : b[i] = b[j] => i = j}

BatchShapes == {<<>>, <<"badPhoto">>, <<"photo", "doc">>, <<"audioNoUrl">>}

BatchPostsWithId(id) ==
    {Post(id, o, "hello", FALSE, MkAtts(k)) : o \in OwnerIds, k \in BatchShapes}

(***************************************************************************)
(* Message text.  A text is a sequence of pieces; the empty sequence is    *)
(* the empty string.  Every piece is a non-empty string of the code.       *)
(***************************************************************************)
Tok(kind, str, n, m, artist, title) ==
    [kind |-> kind, str |-> str, n |-> n, m |-> m, artist |-> artist, title |-> title]

\* post.text || ''
OrigText(post) ==
    IF Truthy(post.text) THEN <<Tok("text", post.text, 0, 0, <<>>, <<>>)>> ELSE <<>>

\* `\n\n<a href="${postUrl}">...</a>` with postUrl from getPostUrl(post).
PostLinkTok(post) == Tok("postLink", "", post.id, post.owner_id, <<>>, <<>>)

LinksHeaderTok == Tok("linksHeader", "", 0, 0, <<>>, <<>>)

LinkTok(url) == Tok("link", "", url, 0, <<>>, <<>>)

AudioHeaderTok == Tok("audioHeader", "", 0, 0, <<>>, <<>>)

AudioLineTok(audio) == Tok("audioLine", "", 0, 0, audio.artist, audio.title)

ErrorMarkerTok == Tok("errorMarker", "", 0, 0, <<>>, <<>>)

DocTitleTok(title) == Tok("docTitle", "", 0, 0, <<>>, title)

\* Variant: the link list is not appended.
WithLinks_Dropped(txt, linkUrls) == txt

\* Lines 96-102 of processPost.
WithLinks(txt, linkUrls) ==
    IF Len(linkUrls) > 0
    THEN txt \o <<LinksHeaderTok>> \o MapSeq(linkUrls, LinkTok)
    ELSE txt

AudioTracksWithoutUrl(audios) ==
    SelectSeq(audios, LAMBDA a : ~HasUrl(a.url) /\ TruthySeq(a.artist) /\ TruthySeq(a.title))

AudiosWithUrl(audios) == SelectSeq(audios, LAMBDA a : HasUrl(a.url))

\* Variant: the audio lines are appended only when no reference carries a URL.
WithAudioLines_OnlyIfNoneHasUrl(txt, audios) ==
    IF Len(AudioTracksWithoutUrl(audios)) > 0 /\ Len(AudiosWithUrl(audios)) = 0
    THEN txt \o <<AudioHeaderTok>> \o MapSeq(AudioTracksWithoutUrl(audios), AudioLineTok)
    ELSE txt

\* Lines 195-202 of sendContentToTelegram.
WithAudioLines(txt, audios) ==
    IF Len(AudioTracksWithoutUrl(audios)) > 0
    THEN txt \o <<AudioHeaderTok>> \o MapSeq(AudioTracksWithoutUrl(audios), AudioLineTok)
    ELSE txt

(***************************************************************************)
(* Outbound units: the calls sendContentToTelegram makes, in order.        *)
(***************************************************************************)
Unit(method, url, urls, title, performer) ==
    [method |-> method, url |-> url, urls |-> urls, title |-> title,
     performer |-> performer]

TextUnit == Unit("sendMessage", NoUrl, <<>>, <<>>, <<>>)

PhotoUnits(photoUrls) ==
    IF Len(photoUrls) = 0 THEN <<>>
    ELSE IF Len(photoUrls) = 1
         THEN <<Unit("sendPhoto", photoUrls[1], <<>>, <<>>, <<>>)>>
         ELSE <<Unit("sendMediaGroup", NoUrl, photoUrls, <<>>, <<>>)>>

GifUnits(gifUrls) ==
    MapSeq(gifUrls, LAMBDA u : Unit("sendAnimation", u, <<>>, <<>>, <<>>))

AudioUnits(audios) ==
    MapSeq(AudiosWithUrl(audios),
           LAMBDA a : Unit("sendAudio", a.url, <<>>, a.title, a.artist))

DocUnits(docs) ==
    MapSeq(docs, LAMBDA d : Unit("sendDocument", d.url, <<>>, d.title, <<>>))

OnlyText(photoUrls, gifUrls, audios, docs) ==
    /\ Len(photoUrls) = 0
    /\ Len(gifUrls) = 0
    /\ Len(AudiosWithUrl(audios)) = 0
    /\ Len(docs) = 0

\* Variant: audio is sent before the animations.
PlannedUnits_AudioBeforeGifs(photoUrls, gifUrls, audios, docs) ==
    IF OnlyText(photoUrls, gifUrls, audios, docs)
    THEN <<TextUnit>>
    ELSE PhotoUnits(photoUrls) \o AudioUnits(audios) \o GifUnits(gifUrls) \o DocUnits(docs)

PlannedUnits(photoUrls, gifUrls, audios, docs) ==
    IF OnlyText(photoUrls, gifUrls, audios, docs)
    THEN <<TextUnit>>
    ELSE PhotoUnits(photoUrls) \o GifUnits(gifUrls) \o AudioUnits(audios) \o DocUnits(docs)

\* Variant: a document gets the current text even when it is empty.
CaptionFor_TextOnly(unit, txt) == txt

\* Variant: a document is always captioned with its title.
CaptionFor_TitleAlways(unit, txt) ==
    IF unit.method = "sendDocument" THEN <<DocTitleTok(unit.title)>> ELSE txt

\* The caption argument of the call for a unit, given the current text.
CaptionFor(unit, txt) ==
    IF unit.method = "sendDocument" /\ txt = <<>>
    THEN <<DocTitleTok(unit.title)>>
    ELSE txt

\* Variant: every URL is posted.
MediaOf_Unsliced(urls) == urls

\* TelegramClient.sendMediaGroup posts at most MediaGroupLimit media.
MediaOf(urls) == SubSeq(urls, 1, Min2(Len(urls), MediaGroupLimit))

\* The request TelegramClient posts for a unit.
Call(unit, caption) ==
    [method |-> unit.method, url |-> unit.url, media |-> MediaOf(unit.urls),
     caption |-> caption,
     title |-> IF unit.method = "sendAudio" THEN unit.title ELSE <<>>,
     performer |-> unit.performer, result |-> "pending"]

(***************************************************************************)
(* The audio lookup.  A search response is [ok, items]: ok is FALSE when   *)
(* the request throws or the API answers with an error payload.            *)
(***************************************************************************)
Track(id, artist, title, url) == [id |-> id, artist |-> artist, title |-> title, url |-> url]

Response(ok, items) == [ok |-> ok, items |-> items]

TrackExact == Track(1, <<"a">>, <<"b">>, 201)
TrackExactNoUrl == Track(2, <<"a">>, <<"b">>, NoUrl)
TrackOther == Track(3, <<"b">>, <<"a">>, 203)
TrackClose == Track(4, <<"a", "!">>, <<"b", "b", "b", "b">>, 204)

SearchResponses ==
    {Response(FALSE, <<>>), Response(TRUE, <<>>),
     Response(TRUE, <<TrackExact>>), Response(TRUE, <<TrackExactNoUrl>>),
     Response(TRUE, <<TrackOther>>), Response(TRUE, <<TrackOther, TrackClose>>)}

\* Variant: the answer of the general search is not used.
findAudioTrack_FirstSearchOnly(artist, title, r1, r2) ==
    IF r1.ok /\ Len(r1.items) > 0
    THEN findBestAudioMatch(r1.items, artist, title)
    ELSE NoTrack

\* The result of findAudioTrack when audio.search answers r1 and the general
\* search, if it is asked, answers r2.  null is NoTrack.
findAudioTrack(artist, title, r1, r2) ==
    LET first == IF r1.ok /\ Len(r1.items) > 0
                 THEN findBestAudioMatch(r1.items, artist, title)
                 ELSE NoTrack
    IN  IF first # NoTrack THEN first
        ELSE IF ~r2.ok THEN NoTrack
        ELSE IF Len(r2.items) > 0 THEN findBestAudioMatch(r2.items, artist, title)
        ELSE NoTrack

\* Whether findAudioTrack asks the general search after audio.search answered r1.
AsksGeneralSearch(artist, title, r1) ==
    ~(r1.ok /\ Len(r1.items) > 0 /\ findBestAudioMatch(r1.items, artist, title) # NoTrack)

\* What a findAudioTrack call was answered, for the history variable lookups:
\* the best candidate of the list that decides (audio.search's if it holds a
\* candidate at the threshold, else the general search's), whether it reaches
\* the threshold, its URL, and whether the call ended in the error of the
\* general search (lines 153-156, 178-181).
Decisive(lk) ==
    IF /\ lk.r1.ok
       /\ \E i \in 1..Len(lk.r1.items) :
              ScoreAtLeastThreshold(TotalScore(lk.r1.items[i], lk.artist, lk.title))
    THEN lk.r1.items
    ELSE IF lk.r2.ok THEN lk.r2.items ELSE <<>>

Answered(index, lk) ==
    LET items == Decisive(lk)
        top == IF items = <<>> THEN NoTrack
               ELSE items[BestIndex(items, lk.artist, lk.title)]
        reaches == items # <<>> /\ ScoreAtLeastThreshold(TotalScore(top, lk.artist, lk.title))
    IN  [index |-> index, reaches |-> reaches,
         url |-> IF reaches THEN top.url ELSE NoUrl,
         failed |-> AsksGeneralSearch(lk.artist, lk.title, lk.r1) /\ ~lk.r2.ok]

NoLookup == [artist |-> <<>>, title |-> <<>>, r1 |-> Response(FALSE, <<>>),
             r2 |-> Response(FALSE, <<>>), active |-> FALSE]

Lookup(artist, title, r1, r2) ==
    [artist |-> artist, title |-> title, r1 |-> r1, r2 |-> r2, active |-> TRUE]

\* The answers the two searches can give to one findAudioTrack call; the
\* general search gives none when it is not asked.
LookupsFor(artist, title) ==
    UNION {{Lookup(artist, title, r1, r2) :
                r2 \in IF AsksGeneralSearch(artist, title, r1)
                       THEN SearchResponses
                       ELSE {Response(FALSE, <<>>)}} :
           r1 \in SearchResponses}

(***************************************************************************)
(* State.  processedPosts and disk are the StorageService; the rest is the *)
(* position and the locals of each running processNewPosts invocation.     *)
(***************************************************************************)
VARIABLES
    processedPosts,        \* StorageService.processedPosts
    disk,                  \* the storage file: [valid, keys]
    exists,                \* whether the storage file exists
    service,               \* the StorageService object: "down", "up", or "failed"
    marked,                \* history: per key, how its markPostAsProcessed calls ended
    pc,                    \* where each invocation stands
    queue,                 \* ids of the posts of [...posts].reverse() still to process
    cur,                   \* the post of the running or last processPost
    text,                  \* the local text
    photoUrls,
    gifUrls,
    audioAttachments,      \* getAudioAttachments(post) in processAudioAttachments
    processedAttachments,  \* processedAttachments, then audioAttachments of processPost
    documentAttachments,
    todo,                  \* the units sendContentToTelegram has still to send
    calls,                 \* the Telegram requests of the running or last processPost
    inflight,              \* the findAudioTrack call awaited, with its answers
    lookups,               \* history: what each findAudioTrack call was answered
    outcome,               \* how the last processPost ended
    caught,                \* whether the catch block of processPost ran
    response,              \* the answer the awaited getPosts call is about to get
    posts,                 \* the posts getPosts returned to the running cycle, newest first
    threw,                 \* whether the last processNewPosts ended by rethrowing
    dispatches,            \* history: per key, the processPost runs that issued a request
    call,                  \* a call of a VKClient function on its own: its arguments
    ret                    \* what that call returned

vars == <<processedPosts, disk, exists, service, marked, pc, queue, cur, text,
          photoUrls, gifUrls,
          audioAttachments, processedAttachments, documentAttachments, todo,
          calls, inflight, lookups, outcome, caught, response, posts, threw,
          dispatches, call, ret>>

Local(w) ==
    [pc |-> pc[w], queue |-> queue[w], cur |-> cur[w], text |-> text[w],
     photoUrls |-> photoUrls[w], gifUrls |-> gifUrls[w],
     audioAttachments |-> audioAttachments[w],
     processedAttachments |-> processedAttachments[w],
     documentAttachments |-> documentAttachments[w], todo |-> todo[w],
     calls |-> calls[w], inflight |-> inflight[w], lookups |-> lookups[w],
     outcome |-> outcome[w],
     caught |-> caught[w], response |-> response[w], posts |-> posts[w],
     threw |-> threw[w]]

Assign(w, l) ==
    /\ pc' = [pc EXCEPT ![w] = l.pc]
    /\ queue' = [queue EXCEPT ![w] = l.queue]
    /\ cur' = [cur EXCEPT ![w] = l.cur]
    /\ text' = [text EXCEPT ![w] = l.text]
    /\ photoUrls' = [photoUrls EXCEPT ![w] = l.photoUrls]
    /\ gifUrls' = [gifUrls EXCEPT ![w] = l.gifUrls]
    /\ audioAttachments' = [audioAttachments EXCEPT ![w] = l.audioAttachments]
    /\ processedAttachments' = [processedAttachments EXCEPT ![w] = l.processedAttachments]
    /\ documentAttachments' = [documentAttachments EXCEPT ![w] = l.documentAttachments]
    /\ todo' = [todo EXCEPT ![w] = l.todo]
    /\ calls' = [calls EXCEPT ![w] = l.calls]
    /\ inflight' = [inflight EXCEPT ![w] = l.inflight]
    /\ lookups' = [lookups EXCEPT ![w] = l.lookups]
    /\ outcome' = [outcome EXCEPT ![w] = l.outcome]
    /\ caught' = [caught EXCEPT ![w] = l.caught]
    /\ response' = [response EXCEPT ![w] = l.response]
    /\ posts' = [posts EXCEPT ![w] = l.posts]
    /\ threw' = [threw EXCEPT ![w] = l.threw]
    /\ dispatches' = IF calls[w] = <<>> /\ l.calls # <<>>
                     THEN [dispatches EXCEPT ![PostKey(l.cur)] = Min2(@ + 1, MaxDispatches)]
                     ELSE dispatches
    /\ UNCHANGED <<exists, service, marked, call, ret>>

\* The answer of wall.get: the items, an error payload, or a transport error.
Answer(status, items) == [status |-> status, items |-> items]

NoResponse == Answer("none", <<>>)

FetchAnswers(batches) ==
    {Answer("transportError", <<>>), Answer("apiError", <<>>)}
        \cup {Answer("ok", b) : b \in batches}

\* The locals before any post is processed in a cycle.
Fresh(pcv, q) ==
    [pc |-> pcv, queue |-> q, cur |-> NoPost, text |-> <<>>, photoUrls |-> <<>>,
     gifUrls |-> <<>>, audioAttachments |-> <<>>, processedAttachments |-> <<>>,
     documentAttachments |-> <<>>, todo |-> <<>>, calls |-> <<>>,
     inflight |-> NoLookup, lookups |-> <<>>, outcome |-> "none", caught |-> FALSE,
     response |-> NoResponse, posts |-> <<>>, threw |-> FALSE]

\* The locals when processPost is entered for the post at the head of the queue.
Entered(w, q) == [Fresh("loop", q) EXCEPT !.posts = posts[w]]

Disk(valid, keys) == [valid |-> valid, keys |-> keys]

Invocations == {1}

pipeline == <<pc, queue, cur, text, photoUrls, gifUrls, audioAttachments,
              processedAttachments, documentAttachments, todo, calls, inflight,
              lookups, outcome, caught, response, posts, threw, dispatches>>

NoCall == [fn |-> "none"]

NotReturned == [returned |-> FALSE]

\* No processNewPosts invocation has started.
IdleOver(slots, keys) ==
    /\ pc = [w \in slots |-> "idle"]
    /\ queue = [w \in slots |-> <<>>]
    /\ cur = [w \in slots |-> NoPost]
    /\ text = [w \in slots |-> <<>>]
    /\ photoUrls = [w \in slots |-> <<>>]
    /\ gifUrls = [w \in slots |-> <<>>]
    /\ audioAttachments = [w \in slots |-> <<>>]
    /\ processedAttachments = [w \in slots |-> <<>>]
    /\ documentAttachments = [w \in slots |-> <<>>]
    /\ todo = [w \in slots |-> <<>>]
    /\ calls = [w \in slots |-> <<>>]
    /\ inflight = [w \in slots |-> NoLookup]
    /\ lookups = [w \in slots |-> <<>>]
    /\ outcome = [w \in slots |-> "none"]
    /\ caught = [w \in slots |-> FALSE]
    /\ response = [w \in slots |-> NoResponse]
    /\ posts = [w \in slots |-> <<>>]
    /\ threw = [w \in slots |-> FALSE]
    /\ dispatches = [k \in keys |-> 0]
    /\ marked = [k \in keys |-> "never"]

\* The state after construction, for the given invocations and post keys.
InitOver(slots, keys) ==
    /\ \E loaded \in SUBSET keys :
          /\ disk = Disk(TRUE, loaded)
          /\ processedPosts = loaded
    /\ exists = TRUE
    /\ service = "up"
    /\ IdleOver(slots, keys)
    /\ call = NoCall
    /\ ret = NotReturned

Init == InitOver(Invocations, AllKeys)

(***************************************************************************)
(* StorageService.                                                         *)
(***************************************************************************)
\* Variant: no key is ever reported as processed.
isPostProcessed_Never(postId) == FALSE

isPostProcessed(postId) == postId \in processedPosts

\* saveProcessedPosts: writeFileSync either writes the whole set, or throws
\* leaving the file as it was, or throws after it truncated the file.
PersistResults == {"ok", "failUnchanged", "failPartial"}

\* Variant: saveProcessedPosts never changes the file.
DiskAfter_NeverWritten(result, keys) == disk

DiskAfter(result, keys) ==
    CASE result = "ok" -> Disk(TRUE, keys)
      [] result = "failUnchanged" -> disk
      [] OTHER -> Disk(FALSE, {})

\* Variant: the key is added to the set only once the save succeeded.
MarkStore_SaveFirst(postId, result) ==
    /\ processedPosts' = IF result = "ok" THEN processedPosts \cup {postId} ELSE processedPosts
    /\ disk' = DiskAfter(result, processedPosts \cup {postId})

\* markPostAsProcessed: add to the set, then save; a failed save throws.
MarkStore(postId, result) ==
    /\ processedPosts' = processedPosts \cup {postId}
    /\ disk' = DiskAfter(result, processedPosts \cup {postId})

(***************************************************************************)
(* sendContentToTelegram, between two awaits.                              *)
(***************************************************************************)
\* Issue the call for the next unit with the current text as its caption.
IssueNext(l) ==
    [l EXCEPT !.calls = Append(@, Call(Head(l.todo), CaptionFor(Head(l.todo), l.text))),
              !.todo = Tail(@),
              !.pc = "sending"]

SetLastResult(cs, result) == [cs EXCEPT ![Len(cs)].result = result]

\* Variant: the catch block of processPost rethrows, ending processNewPosts.
Returned_Rethrows(l, how, wasCaught) ==
    IF wasCaught
    THEN [Fresh("idle", <<>>) EXCEPT !.threw = TRUE]
    ELSE [l EXCEPT !.pc = "returned", !.outcome = how, !.caught = wasCaught,
                   !.inflight = NoLookup]

\* processPost returns; its locals stay readable until the loop of
\* processNewPosts goes on.
Returned(l, how, wasCaught) ==
    [l EXCEPT !.pc = "returned", !.outcome = how, !.caught = wasCaught,
              !.inflight = NoLookup]

\* Lines 93-111: after processAudioAttachments returned.
AfterAudio(l) ==
    IF LinkThrows(l.cur) THEN Returned(l, "failed", TRUE)
    ELSE LET docs == getDocumentAttachments(l.cur)
             txt == WithAudioLines(WithLinks(l.text, getLinkAttachments(l.cur)),
                                   l.processedAttachments)
         IN  IssueNext([l EXCEPT !.documentAttachments = docs,
                                 !.text = txt,
                                 !.todo = PlannedUnits(l.photoUrls, l.gifUrls,
                                                       l.processedAttachments, docs)])

NeedsLookup(audio) ==
    ~HasUrl(audio.url) /\ TruthySeq(audio.artist) /\ TruthySeq(audio.title)

\* The for loop of processAudioAttachments up to its next await, or to its end
\* and on into sendContentToTelegram.
RECURSIVE RunAudio(_)
RunAudio(l) ==
    LET i == Len(l.processedAttachments) + 1
    IN  IF i > Len(l.audioAttachments) THEN AfterAudio(l)
        ELSE IF NeedsLookup(l.audioAttachments[i]) THEN [l EXCEPT !.pc = "lookup"]
        ELSE RunAudio([l EXCEPT !.processedAttachments = Append(@, l.audioAttachments[i])])

\* The lookup answers are drawn when the call is issued.
AssignAwaiting(w, l) ==
    IF l.pc = "lookup"
    THEN LET audio == l.audioAttachments[Len(l.processedAttachments) + 1]
         IN  \E lk \in LookupsFor(audio.artist, audio.title) :
                 Assign(w, [l EXCEPT !.inflight = lk])
    ELSE Assign(w, l)

\* getPhotoAttachments sorts each photo's sizes in place.
SortedInPlace(post) ==
    [post EXCEPT !.attachments =
        [i \in 1..Len(post.attachments) |->
            IF post.attachments[i].type = "photo"
            THEN [post.attachments[i] EXCEPT !.sizes = SortSizes(@)]
            ELSE post.attachments[i]]]

(***************************************************************************)
(* processNewPosts.                                                        *)
(***************************************************************************)
\* processNewPosts is called: getPosts is awaited; its answer is one of the
\* given batches or a failure.
StartFrom(w, batches) ==
    /\ pc[w] = "idle"
    /\ \E answer \in FetchAnswers(batches) :
          Assign(w, [Fresh("fetching", <<>>) EXCEPT !.response = answer])
    /\ UNCHANGED <<processedPosts, disk>>

StartCycle(w) == StartFrom(w, SeqsUpTo(PostIds, MaxBatch))

\* Variant: processNewPosts swallows the error of getPosts.
FetchFail_Swallowed(w) ==
    /\ pc[w] = "fetching"
    /\ response[w].status # "ok"
    /\ Assign(w, Fresh("idle", <<>>))
    /\ UNCHANGED <<processedPosts, disk>>

\* getPosts throws: processNewPosts logs and rethrows.
FetchFail(w) ==
    /\ pc[w] = "fetching"
    /\ response[w].status # "ok"
    /\ Assign(w, [Fresh("idle", <<>>) EXCEPT !.threw = TRUE])
    /\ UNCHANGED <<processedPosts, disk>>

FetchOk(w) ==
    /\ pc[w] = "fetching"
    /\ response[w].status = "ok"
    /\ LET fetched == response[w].items
       IN  IF Len(fetched) = 0
           THEN Assign(w, Fresh("idle", <<>>))
           ELSE Assign(w, [Fresh("loop", Reverse(fetched)) EXCEPT !.posts = fetched])
    /\ UNCHANGED <<processedPosts, disk>>

\* await this.processPost(post) resumes: the for loop takes the next post.
LoopAdvance(w) ==
    /\ pc[w] = "returned"
    /\ Assign(w, Entered(w, Tail(queue[w])))
    /\ UNCHANGED <<processedPosts, disk>>

FinishCycle(w) ==
    /\ pc[w] = "loop"
    /\ queue[w] = <<>>
    /\ Assign(w, Fresh("idle", <<>>))
    /\ UNCHANGED <<processedPosts, disk>>

(***************************************************************************)
(* processPost.  The body of a fetched post is drawn when processPost      *)
(* first reads it.                                                         *)
(***************************************************************************)
SkipSeen(w) ==
    /\ pc[w] = "loop"
    /\ queue[w] # <<>>
    /\ \E o \in OwnerIds :
          LET post == Post(Head(queue[w]), o, "", FALSE, <<>>)
          IN  /\ isPostProcessed(PostKey(post))
              /\ Assign(w, Returned([Entered(w, queue[w]) EXCEPT !.cur = post],
                                    "skippedSeen", FALSE))
    /\ UNCHANGED <<processedPosts, disk>>

\* Variant: a pinned post is skipped without being marked.
SkipPinned_Unmarked(w) ==
    /\ pc[w] = "loop"
    /\ queue[w] # <<>>
    /\ \E o \in OwnerIds :
          LET post == Post(Head(queue[w]), o, "", TRUE, <<>>)
          IN  /\ ~isPostProcessed(PostKey(post))
              /\ Assign(w, Returned([Entered(w, queue[w]) EXCEPT !.cur = post],
                                    "skippedPinned", FALSE))
    /\ UNCHANGED <<processedPosts, disk>>

SkipPinned(w) ==
    /\ pc[w] = "loop"
    /\ queue[w] # <<>>
    /\ \E o \in OwnerIds, result \in PersistResults :
          LET post == Post(Head(queue[w]), o, "", TRUE, <<>>)
          IN  /\ ~isPostProcessed(PostKey(post))
              /\ MarkStore(PostKey(post), result)
              /\ Assign(w, Returned([Entered(w, queue[w]) EXCEPT !.cur = post],
                                    "skippedPinned", result # "ok"))

\* processPost on a post that is neither seen nor pinned, its body one of pool.
BeginFrom(w, pool) ==
    /\ pc[w] = "loop"
    /\ queue[w] # <<>>
    /\ \E post \in pool :
          /\ ~isPostProcessed(PostKey(post))
          /\ LET l0 == [Entered(w, queue[w]) EXCEPT
                            !.cur = post,
                            !.text = OrigText(post) \o <<PostLinkTok(post)>>]
             IN  IF PhotoThrows(post) \/ AudioThrows(post)
                 THEN Assign(w, Returned(l0, "failed", TRUE))
                 ELSE AssignAwaiting(w, RunAudio(
                          [l0 EXCEPT !.cur = SortedInPlace(post),
                                     !.photoUrls = getPhotoAttachments(post),
                                     !.gifUrls = getGifAttachments(post),
                                     !.audioAttachments = getAudioAttachments(post)]))
    /\ UNCHANGED <<processedPosts, disk>>

BeginPost(w) == BeginFrom(w, PostsWithId(Head(queue[w])))

\* Variant: a lookup that found no track throws into the catch of processPost.
LookupReturn_ErrorPropagates(w) ==
    /\ pc[w] = "lookup"
    /\ LET l == Local(w)
           audio == l.audioAttachments[Len(l.processedAttachments) + 1]
           lk == l.inflight
           foundTrack == findAudioTrack(lk.artist, lk.title, lk.r1, lk.r2)
       IN  IF foundTrack = NoTrack
           THEN Assign(w, Returned(l, "failed", TRUE))
           ELSE AssignAwaiting(w, RunAudio([l EXCEPT
                    !.processedAttachments =
                        Append(@, IF HasUrl(foundTrack.url)
                                  THEN AudioRef(foundTrack.url, audio.artist, audio.title)
                                  ELSE audio),
                    !.lookups = Append(@, Answered(Len(l.processedAttachments) + 1, lk)),
                    !.inflight = NoLookup,
                    !.pc = "audio"]))
    /\ UNCHANGED <<processedPosts, disk>>

\* findAudioTrack returned: lines 153-165, then the loop goes on.
LookupReturn(w) ==
    /\ pc[w] = "lookup"
    /\ LET l == Local(w)
           audio == l.audioAttachments[Len(l.processedAttachments) + 1]
           lk == l.inflight
           foundTrack == findAudioTrack(lk.artist, lk.title, lk.r1, lk.r2)
           pushed == IF foundTrack # NoTrack /\ HasUrl(foundTrack.url)
                     THEN AudioRef(foundTrack.url, audio.artist, audio.title)
                     ELSE audio
       IN  AssignAwaiting(w, RunAudio([l EXCEPT !.processedAttachments = Append(@, pushed),
                                                !.lookups = Append(@, Answered(
                                                    Len(l.processedAttachments) + 1, lk)),
                                                !.inflight = NoLookup,
                                                !.pc = "audio"]))
    /\ UNCHANGED <<processedPosts, disk>>

\* A send succeeded and another unit follows.
SendOkNext(w) ==
    /\ pc[w] = "sending"
    /\ calls[w][Len(calls[w])].method # "sendMessage"
    /\ todo[w] # <<>>
    /\ Assign(w, IssueNext([Local(w) EXCEPT !.calls = SetLastResult(@, "ok"),
                                            !.text = <<>>]))
    /\ UNCHANGED <<processedPosts, disk>>

\* Variant: after the last send succeeded the post is not marked.
SendOkDone_Unmarked(w) ==
    /\ pc[w] = "sending"
    /\ calls[w][Len(calls[w])].method = "sendMessage" \/ todo[w] = <<>>
    /\ Assign(w, Returned([Local(w) EXCEPT
                              !.calls = SetLastResult(@, "ok"),
                              !.text = IF calls[w][Len(calls[w])].method = "sendMessage"
                                       THEN @ ELSE <<>>],
                          "dispatched", FALSE))
    /\ UNCHANGED <<processedPosts, disk>>

\* The last send succeeded: sendContentToTelegram returns, line 114 marks.
SendOkDone(w) ==
    /\ pc[w] = "sending"
    /\ calls[w][Len(calls[w])].method = "sendMessage" \/ todo[w] = <<>>
    /\ \E result \in PersistResults :
          /\ MarkStore(PostKey(cur[w]), result)
          /\ Assign(w, Returned([Local(w) EXCEPT
                                    !.calls = SetLastResult(@, "ok"),
                                    !.text = IF calls[w][Len(calls[w])].method = "sendMessage"
                                             THEN @ ELSE <<>>],
                                "dispatched", result # "ok"))

\* Variant: the post is marked before the fallback message is sent.
SendFailFallback_MarksFirst(w) ==
    /\ pc[w] = "sending"
    /\ text[w] # <<>>
    /\ Assign(w, [Local(w) EXCEPT
                     !.calls = Append(SetLastResult(@, "failed"),
                                      Call(TextUnit, text[w] \o <<ErrorMarkerTok>>)),
                     !.todo = <<>>,
                     !.pc = "fallback"])
    /\ MarkStore(PostKey(cur[w]), "ok")

\* A send threw while text is not empty: the fallback message is sent.
SendFailFallback(w) ==
    /\ pc[w] = "sending"
    /\ text[w] # <<>>
    /\ Assign(w, [Local(w) EXCEPT
                     !.calls = Append(SetLastResult(@, "failed"),
                                      Call(TextUnit, text[w] \o <<ErrorMarkerTok>>)),
                     !.todo = <<>>,
                     !.pc = "fallback"])
    /\ UNCHANGED <<processedPosts, disk>>

\* Variant: a post whose send threw is not marked.
SendFailDone_Unmarked(w) ==
    /\ pc[w] = "sending"
    /\ text[w] = <<>>
    /\ Assign(w, Returned([Local(w) EXCEPT !.calls = SetLastResult(@, "failed"),
                                            !.todo = <<>>],
                          "dispatched", FALSE))
    /\ UNCHANGED <<processedPosts, disk>>

\* Variant: after a send threw, the next unit is sent all the same.
SendFailDone_GoesOn(w) ==
    /\ pc[w] = "sending"
    /\ text[w] = <<>>
    /\ todo[w] # <<>>
    /\ Assign(w, IssueNext([Local(w) EXCEPT !.calls = SetLastResult(@, "failed")]))
    /\ UNCHANGED <<processedPosts, disk>>

\* A send threw after the text was cleared: nothing more is sent.
SendFailDone(w) ==
    /\ pc[w] = "sending"
    /\ text[w] = <<>>
    /\ \E result \in PersistResults :
          /\ MarkStore(PostKey(cur[w]), result)
          /\ Assign(w, Returned([Local(w) EXCEPT !.calls = SetLastResult(@, "failed"),
                                                  !.todo = <<>>],
                                "dispatched", result # "ok"))

\* Variant: a post whose fallback message was sent is not marked.
FallbackReturn_Unmarked(w) ==
    /\ pc[w] = "fallback"
    /\ \E sent \in {"ok", "failed"} :
          Assign(w, Returned([Local(w) EXCEPT !.calls = SetLastResult(@, sent)],
                             "dispatched", FALSE))
    /\ UNCHANGED <<processedPosts, disk>>

FallbackReturn(w) ==
    /\ pc[w] = "fallback"
    /\ \E sent \in {"ok", "failed"}, result \in PersistResults :
          /\ MarkStore(PostKey(cur[w]), result)
          /\ Assign(w, Returned([Local(w) EXCEPT !.calls = SetLastResult(@, sent)],
                                "dispatched", result # "ok"))

Next ==
    \E w \in Invocations :
        \/ StartCycle(w)
        \/ FetchFail(w)
        \/ FetchOk(w)
        \/ LoopAdvance(w)
        \/ FinishCycle(w)
        \/ SkipSeen(w)
        \/ SkipPinned(w)
        \/ BeginPost(w)
        \/ LookupReturn(w)
        \/ SendOkNext(w)
        \/ SendOkDone(w)
        \/ SendFailFallback(w)
        \/ SendFailDone(w)
        \/ FallbackReturn(w)

Spec == Init /\ [][Next]_vars

(***************************************************************************)
(* Cycles over batches of several posts.                                   *)
(***************************************************************************)
InitBatch == InitOver(Invocations, BatchKeys)

StartCycleBatch(w) == StartFrom(w, Batches)

BeginPostBatch(w) == BeginFrom(w, BatchPostsWithId(Head(queue[w])))

NextBatch ==
    \E w \in Invocations :
        \/ StartCycleBatch(w)
        \/ FetchFail(w)
        \/ FetchOk(w)
        \/ LoopAdvance(w)
        \/ FinishCycle(w)
        \/ SkipSeen(w)
        \/ SkipPinned(w)
        \/ BeginPostBatch(w)
        \/ LookupReturn(w)
        \/ SendOkNext(w)
        \/ SendOkDone(w)
        \/ SendFailFallback(w)
        \/ SendFailDone(w)
        \/ FallbackReturn(w)

SpecBatch == InitBatch /\ [][NextBatch]_vars

(***************************************************************************)
(* The scheduler: a timer that calls processNewPosts every period.  A      *)
(* trigger that fires while a cycle is running is skipped.                 *)
(***************************************************************************)
\* Two timer ticks can be alive at once; a tick takes the lowest free slot.
Slots == {1, 2}

Running == \E v \in Slots : pc[v] # "idle"

FreeSlot(w) == pc[w] = "idle" /\ \A v \in Slots : v < w => pc[v] # "idle"

\* Variant: the timer calls processNewPosts whether or not a cycle is running.
Trigger_Unguarded(w) == FreeSlot(w) /\ StartFrom(w, Batches)

Trigger(w) ==
    IF Running THEN UNCHANGED vars
    ELSE FreeSlot(w) /\ StartFrom(w, Batches)

InitSched == InitOver(Slots, BatchKeys)

NextSched ==
    \E w \in Slots :
        \/ Trigger(w)
        \/ FetchFail(w)
        \/ FetchOk(w)
        \/ LoopAdvance(w)
        \/ FinishCycle(w)
        \/ SkipSeen(w)
        \/ SkipPinned(w)
        \/ BeginPostBatch(w)
        \/ LookupReturn(w)
        \/ SendOkNext(w)
        \/ SendOkDone(w)
        \/ SendFailFallback(w)
        \/ SendFailDone(w)
        \/ FallbackReturn(w)

SpecSched == InitSched /\ [][NextSched]_vars

(***************************************************************************)
(* The fuzzy matcher on its own: findBestAudioMatch and                    *)
(* calculateStringSimilarity applied to arguments of bounded size.         *)
(***************************************************************************)
Alphabet == {"a", "b"}

Strings == SeqsUpTo(Alphabet, MaxLen)

\* Artists and titles of candidates; one needs normalizing.
Names == {<<>>, <<"a">>, <<"b">>, <<"a", "b">>, <<"A", "!", "b">>}

TargetName == <<"a", "b">>

\* Candidate lists: the track at position i has id i and URL 200 + i.
CandidateLists ==
    UNION {{[i \in 1..n |-> Track(i, names[i][1], names[i][2], 200 + i)] :
               names \in [1..n -> Names \X Names]} : n \in 0..MaxTracks}

MatchCall(tracks, targetArtist, targetTitle) ==
    [fn |-> "findBestAudioMatch", tracks |-> tracks,
     targetArtist |-> targetArtist, targetTitle |-> targetTitle]

SimilarityCall(str1, str2) ==
    [fn |-> "calculateStringSimilarity", str1 |-> str1, str2 |-> str2]

MatcherInit ==
    /\ disk = Disk(TRUE, {})
    /\ processedPosts = {}
    /\ exists = TRUE
    /\ service = "up"
    /\ IdleOver(Invocations, AllKeys)
    /\ ret = NotReturned
    /\ \/ \E tracks \in CandidateLists : call = MatchCall(tracks, TargetName, TargetName)
       \/ \E str1, str2 \in Strings : call = SimilarityCall(str1, str2)

Returns(value) ==
    /\ ret' = [returned |-> TRUE, value |-> value]
    /\ UNCHANGED <<processedPosts, disk, exists, service, marked, pipeline, call>>

Match ==
    /\ call.fn = "findBestAudioMatch"
    /\ ~ret.returned
    /\ Returns(findBestAudioMatch(call.tracks, call.targetArtist, call.targetTitle))

Compare ==
    /\ call.fn = "calculateStringSimilarity"
    /\ ~ret.returned
    /\ Returns(calculateStringSimilarity(call.str1, call.str2))

MatcherNext == Match \/ Compare

SpecMatcher == MatcherInit /\ [][MatcherNext]_vars

(***************************************************************************)
(* The five extractors on their own, run twice on the same item.           *)
(***************************************************************************)
AllKinds == CoreKinds \cup {"photoTie", "photoNoSizes", "gifByTitle", "gifByType",
                            "docNoNested", "video"}

ExtractorPosts ==
    {Post(1, o, "hello", FALSE, MkAtts(kinds)) :
        o \in OwnerIds, kinds \in SeqsUpTo(AllKinds, MaxExtract)}

ExtractCall(post) == [fn |-> "extract", post |-> post]

Got(list) == [threw |-> FALSE, list |-> list]

Threw == [threw |-> TRUE, list |-> <<>>]

\* What each of the five extractors gives on the post: a list or a TypeError.
ExtractAll(post) ==
    [photoUrls |-> IF PhotoThrows(post) THEN Threw ELSE Got(getPhotoAttachments(post)),
     gifUrls |-> Got(getGifAttachments(post)),
     audioAttachments |-> IF AudioThrows(post) THEN Threw
                          ELSE Got(getAudioAttachments(post)),
     linkUrls |-> IF LinkThrows(post) THEN Threw ELSE Got(getLinkAttachments(post)),
     documentAttachments |-> Got(getDocumentAttachments(post))]

\* The post after getPhotoAttachments: the sizes of every photo it reached
\* before it returned or threw are sorted in place.
AfterPhotos(post) ==
    LET atts == post.attachments
        throws(i) == atts[i].type = "photo" /\ (~atts[i].nested \/ atts[i].sizes = <<>>)
        reached(i) == \A j \in 1..(i - 1) : ~throws(j)
    IN  [post EXCEPT !.attachments =
            [i \in 1..Len(atts) |->
                IF atts[i].type = "photo" /\ reached(i)
                THEN [atts[i] EXCEPT !.sizes = SortSizes(@)]
                ELSE atts[i]]]

ExtractorInit ==
    /\ disk = Disk(TRUE, {})
    /\ processedPosts = {}
    /\ exists = TRUE
    /\ service = "up"
    /\ IdleOver(Invocations, AllKeys)
    /\ ret = NotReturned
    /\ \E post \in ExtractorPosts : call = ExtractCall(post)

Extract ==
    /\ call.fn = "extract"
    /\ ~ret.returned
    /\ ret' = [returned |-> TRUE, runs |-> 1, first |-> ExtractAll(call.post),
               second |-> ExtractAll(call.post)]
    /\ call' = [call EXCEPT !.post = AfterPhotos(@)]
    /\ UNCHANGED <<processedPosts, disk, exists, service, marked, pipeline>>

\* The extractors run again on the same post object.
ExtractAgain ==
    /\ call.fn = "extract"
    /\ ret.returned
    /\ ret.runs = 1
    /\ ret' = [ret EXCEPT !.runs = 2, !.second = ExtractAll(call.post)]
    /\ call' = [call EXCEPT !.post = AfterPhotos(@)]
    /\ UNCHANGED <<processedPosts, disk, exists, service, marked, pipeline>>

ExtractorNext == Extract \/ ExtractAgain

SpecExtractor == ExtractorInit /\ [][ExtractorNext]_vars

(***************************************************************************)
(* The life of the ledger: the process starts and constructs the           *)
(* StorageService, marks keys, exits, and starts again on the same file.   *)
(***************************************************************************)
LedgerKeys == OwnerIds \X (1..MaxKeys)

\* Variant: a store that does not parse is loaded as an empty ledger.
Parsed_EmptyOnCorruption(file) ==
    [ok |-> TRUE, keys |-> IF file.valid THEN file.keys ELSE {}]

\* JSON.parse and forEach of initStorage: they throw unless the content is a
\* JSON array.
Parsed(file) == [ok |-> file.valid, keys |-> IF file.valid THEN file.keys ELSE {}]

\* new StorageService(...): initStorage creates the file when it is absent,
\* then reads and parses it; whatever throws is rethrown by the constructor.
Construct ==
    /\ service = "down"
    /\ \E result \in IF exists THEN {"ok"} ELSE PersistResults :
          LET file == IF exists THEN disk ELSE DiskAfter(result, {})
              loaded == Parsed(file)
          IN  /\ exists' = (exists \/ result # "failUnchanged")
              /\ disk' = file
              /\ IF result = "ok" /\ loaded.ok
                 THEN service' = "up" /\ processedPosts' = loaded.keys
                 ELSE service' = "failed" /\ processedPosts' = {}
    /\ UNCHANGED <<marked, pipeline, call, ret>>

Better(seen, now) ==
    IF seen = "returned" \/ now = "ok" THEN "returned" ELSE "threw"

\* markPostAsProcessed(postId) called on the constructed service.
Mark ==
    /\ service = "up"
    /\ \E postId \in LedgerKeys, result \in PersistResults :
          /\ MarkStore(postId, result)
          /\ marked' = [marked EXCEPT ![postId] = Better(@, result)]
    /\ UNCHANGED <<exists, service, pipeline, call, ret>>

\* The process ends: the in-memory set is gone, the file stays.
Exit ==
    /\ service # "down"
    /\ service' = "down"
    /\ processedPosts' = {}
    /\ UNCHANGED <<disk, exists, marked, pipeline, call, ret>>

\* Before the first start the file is absent, an empty list, or unparsable.
InitStore ==
    /\ service = "down"
    /\ processedPosts = {}
    /\ \E found \in {"absent", "empty", "corrupt"} :
          /\ exists = (found # "absent")
          /\ disk = Disk(found = "empty", {})
    /\ IdleOver(Invocations, LedgerKeys)
    /\ call = NoCall
    /\ ret = NotReturned

NextStore == Construct \/ Mark \/ Exit

SpecStore == InitStore /\ [][NextStore]_vars

(***************************************************************************)
(* Vocabulary of the properties.                                           *)
(***************************************************************************)
\* The keys the post at the head of the queue can have.
HeadKeys(w) == {<<o, Head(queue[w])>> : o \in OwnerIds}

\* processPost has returned for a post it did not skip.
Processed(w) ==
    pc[w] = "returned" /\ outcome[w] \notin {"skippedSeen", "skippedPinned"}

\* No extractor throws on the post.
WellFormed(post) == ~PhotoThrows(post) /\ ~AudioThrows(post) /\ ~LinkThrows(post)

\* The caption text processPost and sendContentToTelegram compose for the
\* post of invocation w, once its audio references are processed.
ComposedText(w) ==
    WithAudioLines(WithLinks(OrigText(cur[w]) \o <<PostLinkTok(cur[w])>>,
                             getLinkAttachments(cur[w])),
                   processedAttachments[w])

MediaMethods == {"sendPhoto", "sendMediaGroup", "sendAnimation", "sendAudio", "sendDocument"}

\* The media requests of invocation w, in the order they were issued.
MediaCalls(w) == SelectSeq(calls[w], LAMBDA c : c.method \in MediaMethods)

CallsOf(w, method) == SelectSeq(calls[w], LAMBDA c : c.method = method)

UrlsOf(cs) == [i \in 1..Len(cs) |-> cs[i].url]

IsPrefix(s, t) == Len(s) <= Len(t) /\ s = SubSeq(t, 1, Len(s))

AllSent(w) == \A i \in 1..Len(calls[w]) : calls[w][i].result = "ok"

\* C1: when the key of the post processPost starts on is already in the
\* ledger, processPost returns at once: it issues no Telegram call, asks no
\* audio lookup, and leaves the ledger and the storage file as they were.
C1_SeenPostIssuesNothing ==
    [][\A w \in Invocations :
          (pc[w] = "loop" /\ queue[w] # <<>> /\ HeadKeys(w) \subseteq processedPosts)
          => /\ pc'[w] = "returned"
             /\ outcome'[w] = "skippedSeen"
             /\ calls'[w] = <<>>
             /\ inflight'[w] = NoLookup /\ lookups'[w] = <<>>
             /\ processedPosts' = processedPosts
             /\ disk' = disk]_vars

C1_Witness ==
    \E w \in Invocations :
        /\ pc[w] = "returned" /\ outcome[w] = "skippedSeen"
        /\ PostKey(cur[w]) \in processedPosts
        /\ calls[w] = <<>>

\* C2: a pinned post whose key is not in the ledger gets its key marked and
\* no Telegram call; keys never leave the ledger, and a post whose key is in
\* the ledger is skipped as seen, so every later cycle skips the pinned post.
C2_PinnedMarkedNeverSent ==
    [][/\ \A w \in Invocations :
             (pc'[w] = "returned" /\ cur'[w].is_pinned)
             => /\ PostKey(cur'[w]) \in processedPosts'
                /\ calls'[w] = <<>>
                /\ lookups'[w] = <<>>
       /\ processedPosts \subseteq processedPosts'
       /\ \A w \in Invocations :
             (pc[w] = "loop" /\ queue[w] # <<>> /\ HeadKeys(w) \subseteq processedPosts)
             => outcome'[w] = "skippedSeen"]_vars

C2_Witness ==
    \E w \in Invocations :
        /\ pc[w] = "returned" /\ cur[w].is_pinned
        /\ outcome[w] = "skippedPinned"
        /\ PostKey(cur[w]) \in processedPosts

\* The title of the document of the post that lies at the given URL.
DocTitleAt(post, url) ==
    LET docs == getDocumentAttachments(post)
    IN  docs[CHOOSE i \in 1..Len(docs) : docs[i].url = url].title

\* C3 as stated: the first media request carries the composed text and every
\* later media request of the same post carries an empty caption.
C3_LaterUnitsHaveEmptyCaption ==
    \A w \in Invocations :
        LET mc == MediaCalls(w)
        IN  \A i \in 1..Len(mc) :
                mc[i].caption = IF i = 1 THEN ComposedText(w) ELSE <<>>

\* C3, amended: the first media request carries the composed text; a later
\* photo, animation or audio request carries an empty caption; a later
\* document request carries the line naming the document's title.
C3_CaptionOnFirstUnit ==
    \A w \in Invocations :
        LET mc == MediaCalls(w)
        IN  \A i \in 1..Len(mc) :
                mc[i].caption =
                    IF i = 1 THEN ComposedText(w)
                    ELSE IF mc[i].method = "sendDocument"
                         THEN <<DocTitleTok(DocTitleAt(cur[w], mc[i].url))>>
                         ELSE <<>>

C3_Witness ==
    \E w \in Invocations :
        LET mc == MediaCalls(w)
        IN  /\ Len(mc) >= 3
            /\ mc[1].caption = ComposedText(w)
            /\ \E i \in 2..Len(mc) : mc[i].method = "sendAudio" /\ mc[i].caption = <<>>
            /\ \E i \in 2..Len(mc) : mc[i].method = "sendDocument" /\ mc[i].result = "ok"

Rank(method) ==
    CASE method \in {"sendPhoto", "sendMediaGroup"} -> 1
      [] method = "sendAnimation" -> 2
      [] method = "sendAudio" -> 3
      [] OTHER -> 4

\* C4: media requests are issued photos first (one photo or one album), then
\* animations, then the audio references that carry a URL, then documents.
\* Within a type there is one request per attachment, in source order, and a
\* request of a later type is issued only after every request of the earlier
\* types.
C4_DispatchOrder ==
    \A w \in Invocations :
        LET mc == MediaCalls(w)
            photos == getPhotoAttachments(cur[w])
            gifs == getGifAttachments(cur[w])
            audios == UrlsOf(AudiosWithUrl(processedAttachments[w]))
            docs == UrlsOf(getDocumentAttachments(cur[w]))
            sentGifs == UrlsOf(CallsOf(w, "sendAnimation"))
            sentAudios == UrlsOf(CallsOf(w, "sendAudio"))
            sentDocs == UrlsOf(CallsOf(w, "sendDocument"))
            photoCalls == Len(CallsOf(w, "sendPhoto")) + Len(CallsOf(w, "sendMediaGroup"))
        IN  /\ \A i, j \in 1..Len(mc) : i < j => Rank(mc[i].method) <= Rank(mc[j].method)
            /\ photoCalls <= 1
            /\ IsPrefix(sentGifs, gifs)
            /\ IsPrefix(sentAudios, audios)
            /\ IsPrefix(sentDocs, docs)
            /\ sentGifs # <<>> => photoCalls = (IF photos = <<>> THEN 0 ELSE 1)
            /\ sentAudios # <<>> =>
                  /\ photoCalls = (IF photos = <<>> THEN 0 ELSE 1)
                  /\ sentGifs = gifs
            /\ sentDocs # <<>> =>
                  /\ photoCalls = (IF photos = <<>> THEN 0 ELSE 1)
                  /\ sentGifs = gifs
                  /\ sentAudios = audios
            /\ (Processed(w) /\ WellFormed(cur[w]) /\ AllSent(w)) =>
                  /\ photoCalls = (IF photos = <<>> THEN 0 ELSE 1)
                  /\ sentGifs = gifs
                  /\ sentAudios = audios
                  /\ sentDocs = docs

C4_Witness ==
    \E w \in Invocations :
        LET mc == MediaCalls(w)
        IN  /\ Processed(w) /\ AllSent(w)
            /\ Len(mc) = 4
            /\ mc[1].method = "sendPhoto" /\ mc[2].method = "sendAnimation"
            /\ mc[3].method = "sendAudio" /\ mc[4].method = "sendDocument"

\* The post yields no media unit: no photo, no animation, no audio reference
\* with a URL and no document.
NoMediaUnits(w) ==
    /\ getPhotoAttachments(cur[w]) = <<>>
    /\ getGifAttachments(cur[w]) = <<>>
    /\ \A i \in 1..Len(processedAttachments[w]) : ~HasUrl(processedAttachments[w][i].url)
    /\ getDocumentAttachments(cur[w]) = <<>>

\* The text starts with the post's own text and the link to the post, and
\* holds a line for every link and for every unresolved audio reference.
TextCarries(w, txt) ==
    /\ IsPrefix(OrigText(cur[w]) \o <<PostLinkTok(cur[w])>>, txt)
    /\ \A u \in Range(getLinkAttachments(cur[w])) : LinkTok(u) \in Range(txt)
    /\ \A a \in Range(processedAttachments[w]) :
          (~HasUrl(a.url) /\ TruthySeq(a.artist) /\ TruthySeq(a.title))
          => AudioLineTok(a) \in Range(txt)

\* C5 as stated: a processed post that yields no media unit has exactly one
\* request, a sendMessage with the composed text.
C5_ExactlyOneTextUnit ==
    \A w \in Invocations :
        (Processed(w) /\ WellFormed(cur[w]) /\ NoMediaUnits(w))
        => /\ Len(calls[w]) = 1
           /\ calls[w][1].method = "sendMessage"
           /\ TextCarries(w, calls[w][1].caption)

\* C5, amended: a well-formed post that yields no media unit gets one
\* sendMessage with the composed text and no media request; if that
\* sendMessage fails, one more sendMessage follows, carrying the same text and
\* the error marker, and nothing else.
C5_TextOnlyPost ==
    \A w \in Invocations :
        (Processed(w) /\ WellFormed(cur[w]) /\ NoMediaUnits(w))
        => /\ MediaCalls(w) = <<>>
           /\ Len(calls[w]) >= 1
           /\ calls[w][1].method = "sendMessage"
           /\ calls[w][1].caption = ComposedText(w)
           /\ TextCarries(w, calls[w][1].caption)
           /\ calls[w][1].result = "ok" => Len(calls[w]) = 1
           /\ calls[w][1].result = "failed" =>
                 /\ Len(calls[w]) = 2
                 /\ calls[w][2].method = "sendMessage"
                 /\ calls[w][2].caption = calls[w][1].caption \o <<ErrorMarkerTok>>

C5_Witness ==
    \E w \in Invocations :
        /\ Processed(w) /\ WellFormed(cur[w]) /\ NoMediaUnits(w)
        /\ Len(calls[w]) = 1 /\ calls[w][1].result = "ok"
        /\ \E t \in Range(calls[w][1].caption) : t.kind = "link"
        /\ \E t \in Range(calls[w][1].caption) : t.kind = "audioLine"

\* C6 as stated: a post with n >= 2 photos gets exactly one sendMediaGroup
\* whose media are all n photo URLs in source order, with the composed text
\* as caption, and no sendMessage.
C6_AlbumCoversAllPhotos ==
    \A w \in Invocations :
        LET photos == getPhotoAttachments(cur[w])
        IN  (WellFormed(cur[w]) /\ Len(photos) >= 2 /\ calls[w] # <<>>)
            => /\ calls[w][1].method = "sendMediaGroup"
               /\ calls[w][1].media = photos
               /\ calls[w][1].caption = ComposedText(w)
               /\ Len(CallsOf(w, "sendMediaGroup")) = 1
               /\ CallsOf(w, "sendPhoto") = <<>>
               /\ CallsOf(w, "sendMessage") = <<>>

\* C6, amended: a well-formed post with n >= 2 photos gets exactly one
\* sendMediaGroup, first of its requests, with the composed text as caption;
\* its media are the first MediaGroupLimit photo URLs in source order, which
\* are all of them only when n <= MediaGroupLimit; a sendMessage is issued
\* only as the fallback after the album request failed.
C6_AlbumOfFirstTen ==
    \A w \in Invocations :
        LET photos == getPhotoAttachments(cur[w])
        IN  (WellFormed(cur[w]) /\ Len(photos) >= 2)
            => /\ Processed(w) => calls[w] # <<>>
               /\ calls[w] # <<>> =>
                     /\ calls[w][1].method = "sendMediaGroup"
                     /\ calls[w][1].media =
                            SubSeq(photos, 1, IF Len(photos) <= MediaGroupLimit
                                              THEN Len(photos) ELSE MediaGroupLimit)
                     /\ calls[w][1].caption = ComposedText(w)
                     /\ Len(CallsOf(w, "sendMediaGroup")) = 1
                     /\ CallsOf(w, "sendPhoto") = <<>>
                     /\ CallsOf(w, "sendMessage") # <<>> =>
                           /\ calls[w][1].result = "failed"
                           /\ Len(calls[w]) = 2

C6_Witness ==
    \E w \in Invocations :
        /\ Processed(w) /\ WellFormed(cur[w]) /\ AllSent(w)
        /\ Len(getPhotoAttachments(cur[w])) > MediaGroupLimit
        /\ calls[w][1].method = "sendMediaGroup"
        /\ Len(calls[w][1].media) = MediaGroupLimit

\* The lookups of invocation w that were answered with a best candidate at
\* the threshold that has a URL, and those answered with none at the threshold.
ResolvedLookups(w) ==
    {k \in 1..Len(lookups[w]) : lookups[w][k].reaches /\ HasUrl(lookups[w][k].url)}

UnresolvedLookups(w) == {k \in 1..Len(lookups[w]) : ~lookups[w][k].reaches}

\* How many of the first n processed audio references carry a URL.
WithUrlUpTo(w, n) == Cardinality({i \in 1..n : HasUrl(processedAttachments[w][i].url)})

\* How many tokens of the text are the given one.
Occurrences(txt, tok) == Cardinality({i \in 1..Len(txt) : txt[i] = tok})

\* C7 as stated: once a well-formed post is processed, every reference whose
\* lookup was answered with a best candidate at the threshold with a URL has
\* a sendAudio request with that URL and the reference's artist and title.
C7_ResolvedAlwaysSent ==
    \A w \in Invocations :
        (Processed(w) /\ WellFormed(cur[w]))
        => \A k \in ResolvedLookups(w) :
              LET e == lookups[w][k]
                  ref == audioAttachments[w][e.index]
              IN  \E c \in Range(CallsOf(w, "sendAudio")) :
                      c.url = e.url /\ c.title = ref.title /\ c.performer = ref.artist

\* C7, amended: such a reference is kept with the candidate's URL and its own
\* artist and title, and is not among the references rendered as text lines;
\* its sendAudio request, with that URL, artist and title, is issued at its
\* place among the audio requests, and is issued for certain when every
\* request of the post succeeds.
C7_ResolvedSentAsAudio ==
    \A w \in Invocations :
        \A k \in ResolvedLookups(w) :
            LET e == lookups[w][k]
                ref == audioAttachments[w][e.index]
                place == WithUrlUpTo(w, e.index)
                sent == CallsOf(w, "sendAudio")
            IN  /\ ~HasUrl(ref.url) /\ TruthySeq(ref.artist) /\ TruthySeq(ref.title)
                /\ processedAttachments[w][e.index] = AudioRef(e.url, ref.artist, ref.title)
                /\ \A i \in 1..Len(calls[w]) :
                      Occurrences(calls[w][i].caption, AudioLineTok(ref)) <=
                          Cardinality({j \in 1..Len(processedAttachments[w]) :
                                          /\ ~HasUrl(processedAttachments[w][j].url)
                                          /\ processedAttachments[w][j].artist = ref.artist
                                          /\ processedAttachments[w][j].title = ref.title})
                /\ Len(sent) >= place =>
                      /\ sent[place].url = e.url
                      /\ sent[place].title = ref.title
                      /\ sent[place].performer = ref.artist
                /\ (Processed(w) /\ WellFormed(cur[w]) /\ AllSent(w)) => Len(sent) >= place

C7_Witness ==
    \E w \in Invocations :
        /\ Processed(w) /\ AllSent(w)
        /\ \E k \in ResolvedLookups(w) :
              /\ \E c \in Range(CallsOf(w, "sendAudio")) : c.url = lookups[w][k].url
              /\ \A i \in 1..Len(calls[w]) :
                    \A t \in Range(calls[w][i].caption) : t.kind # "audioLine"

\* C8: a reference without URL, with artist and title, whose lookup failed or
\* was answered with no candidate at the threshold is kept without URL; the
\* text of the first request holds its line, once for each such reference of
\* that artist and title; sendAudio requests are issued for references with a
\* URL only, whatever other references of the post carry one.
C8_UnresolvedAsTextLine ==
    \A w \in Invocations :
        \A k \in UnresolvedLookups(w) :
            LET e == lookups[w][k]
                ref == audioAttachments[w][e.index]
                sent == CallsOf(w, "sendAudio")
            IN  /\ ~HasUrl(ref.url) /\ TruthySeq(ref.artist) /\ TruthySeq(ref.title)
                /\ processedAttachments[w][e.index] = ref
                /\ calls[w] # <<>> =>
                      Occurrences(calls[w][1].caption, AudioLineTok(ref)) =
                          Cardinality({j \in 1..Len(processedAttachments[w]) :
                                          processedAttachments[w][j] = ref})
                /\ \A i \in 1..Len(sent) : HasUrl(sent[i].url)
                /\ Len(sent) <= WithUrlUpTo(w, Len(processedAttachments[w]))

C8_Witness ==
    \E w \in Invocations :
        /\ Processed(w) /\ AllSent(w)
        /\ UnresolvedLookups(w) # {}
        /\ CallsOf(w, "sendAudio") # <<>>
        /\ \E t \in Range(calls[w][1].caption) : t.kind = "audioLine"

\* C9: while a request or a lookup of a post that is not pinned is awaited,
\* or a unit of it is still to be sent, its key is not in the ledger.
C9_MarkedOnlyAfterDispatch ==
    \A w \in Invocations :
        (~cur[w].is_pinned /\ PostKey(cur[w]) \in processedPosts)
        => /\ pc[w] = "returned"
           /\ todo[w] = <<>>
           /\ inflight[w] = NoLookup
           /\ \A i \in 1..Len(calls[w]) : calls[w][i].result # "pending"

C9_Witness ==
    \E w \in Invocations :
        /\ Processed(w) /\ outcome[w] = "dispatched"
        /\ PostKey(cur[w]) \in processedPosts
        /\ Len(calls[w]) >= 2
        /\ calls[w][Len(calls[w])].method = "sendMessage"
        /\ calls[w][1].result = "failed"

InLoop(w) == pc[w] \notin {"idle", "fetching"}

\* No owner's key for the post id is in the ledger.
UnmarkedId(id) == \A o \in OwnerIds : <<o, id>> \notin processedPosts

\* C11: once the fetch has succeeded, no failure inside an item (a malformed
\* attachment, a lookup, a send, the fallback send, a ledger write) makes
\* processNewPosts throw or end early: processPost always returns to the
\* loop, the loop then goes on with the remaining items, and the cycle ends
\* only when no item is left.
C11_ItemFailureNeverAbortsBatch ==
    [][\A w \in Invocations :
          /\ InLoop(w) => ~threw'[w]
          /\ (InLoop(w) /\ pc'[w] = "idle") => (pc[w] = "loop" /\ queue[w] = <<>>)
          /\ (pc[w] = "returned" /\ pc'[w] # "returned")
                => (pc'[w] = "loop" /\ queue'[w] = Tail(queue[w]))
          /\ (InLoop(w) /\ pc[w] # "returned" /\ InLoop(w)')
                => queue'[w] = queue[w]]_vars

\* The first item failed in the catch block without being marked and the
\* second item of the same batch is being sent.
C11_Witness ==
    \E w \in Invocations :
        /\ Len(posts[w]) = 2
        /\ queue[w] = <<posts[w][1]>>
        /\ UnmarkedId(posts[w][2])
        /\ pc[w] = "sending"

\* The I/O calls of w that have been issued and have not completed.
Pending(w) ==
    Cardinality({i \in 1..Len(calls[w]) : calls[w][i].result = "pending"})
        + (IF inflight[w].active THEN 1 ELSE 0)
        + (IF pc[w] = "fetching" THEN 1 ELSE 0)

\* C12: the items of a batch are processed in the reverse of the fetched
\* order, one after the other: the loop starts on the last fetched item, the
\* item in work is always the head of what is left, the loop moves on only
\* when processPost has returned with no call of the item outstanding, a mark
\* is part of the step that returns from the item, and at no time is more
\* than one I/O call in flight.
C12_OldestFirstOneAtATime ==
    [][\A w \in Invocations :
          /\ (pc[w] = "fetching" /\ pc'[w] = "loop")
                => /\ Len(queue'[w]) = Len(response[w].items)
                   /\ \A i \in 1..Len(queue'[w]) :
                          queue'[w][i] = response[w].items[Len(queue'[w]) - i + 1]
          /\ (InLoop(w) /\ InLoop(w)' /\ queue'[w] # queue[w])
                => (pc[w] = "returned" /\ Pending(w) = 0 /\ queue'[w] = Tail(queue[w]))
          /\ pc'[w] \in {"lookup", "sending", "fallback", "returned"}
                => (queue'[w] # <<>> /\ cur'[w].id = Head(queue'[w]))
          /\ Pending(w)' <= 1
          /\ pc'[w] \in {"idle", "loop", "returned"} => Pending(w)' = 0
          /\ processedPosts' # processedPosts
                => (pc'[w] = "returned"
                    /\ processedPosts' = processedPosts \cup {PostKey(cur'[w])})]_vars

\* The older of two fetched items has been dispatched and marked, and a call
\* of the newer one is in flight.
C12_Witness ==
    \E w \in Invocations :
        /\ Len(posts[w]) = 2
        /\ queue[w] = <<posts[w][1]>>
        /\ \E o \in OwnerIds : /\ <<o, posts[w][2]>> \in processedPosts
                              /\ dispatches[<<o, posts[w][2]>>] = 1
        /\ pc[w] = "sending"
        /\ Pending(w) = 1

(***************************************************************************)
(* Claims about the scheduler, checked under SpecSched.                    *)
(***************************************************************************)
\* The processNewPosts invocation w is past the dedup check of its item.
PastDedup(w) ==
    \/ pc[w] \in {"lookup", "sending", "fallback"}
    \/ pc[w] = "returned" /\ outcome[w] # "skippedSeen"

\* C13: poll cycles never overlap: a trigger that fires while a cycle runs
\* starts nothing, so at most one invocation of processNewPosts is running,
\* no two invocations are past the dedup check with the same key, and no key
\* is dispatched twice.
C13_CyclesNeverOverlap ==
    /\ \A v, w \in Slots : v # w => (pc[v] = "idle" \/ pc[w] = "idle")
    /\ \A v, w \in Slots :
          (v # w /\ PastDedup(v) /\ PastDedup(w)) => PostKey(cur[v]) # PostKey(cur[w])
    /\ \A k \in BatchKeys : dispatches[k] <= 1

\* A later cycle meets an item that an earlier cycle dispatched and marked,
\* while a trigger that fires now is skipped.
C13_Witness ==
    \E w \in Slots :
        /\ pc[w] = "loop"
        /\ queue[w] # <<>>
        /\ \E o \in OwnerIds : /\ <<o, Head(queue[w])>> \in processedPosts
                              /\ dispatches[<<o, Head(queue[w])>>] = 1
        /\ Running

\* C14: when getPosts fails, with a transport error or with an error payload
\* of the API, processNewPosts throws to its caller without having processed
\* an item: no call is issued, the ledger and the storage file stay as they
\* were, and nothing of the failed cycle is left for the next one.
C14_FetchFailureAbortsCycle ==
    [][\A w \in Invocations :
          (pc[w] = "fetching" /\ response[w].status \in {"transportError", "apiError"})
              => /\ pc'[w] = "idle"
                 /\ threw'[w]
                 /\ Local(w)' = [Fresh("idle", <<>>) EXCEPT !.threw = TRUE]
                 /\ calls[w] = <<>> /\ lookups[w] = <<>> /\ cur[w] = NoPost
                 /\ processedPosts' = processedPosts
                 /\ disk' = disk
                 /\ dispatches' = dispatches]_vars

\* processNewPosts has thrown on a failed fetch; the ledger holds keys and
\* the storage file agrees with it.
C14_Witness ==
    \E w \in Invocations :
        /\ pc[w] = "idle"
        /\ threw[w]
        /\ processedPosts # {}
        /\ disk = Disk(TRUE, processedPosts)

(***************************************************************************)
(* Claims about the ledger, checked under SpecStore.                       *)
(***************************************************************************)
\* C15: on a constructed StorageService, isPostProcessed(k) is false while
\* markPostAsProcessed(k) has never been called, true once a call of it has
\* returned normally, also in a later process that loaded the file, and no
\* operation on a running service removes a key.
C15_MarkedKeysStayProcessed ==
    [][/\ service' = "up"
          => \A k \in LedgerKeys :
                /\ marked'[k] = "never" => ~isPostProcessed(k)'
                /\ marked'[k] = "returned" => isPostProcessed(k)'
       /\ (service = "up" /\ service' = "up") => processedPosts \subseteq processedPosts']_vars

\* A restarted service reports a key whose mark returned normally, after it
\* lost a key whose mark threw.
C15_Witness ==
    /\ service = "up"
    /\ \E k, lost \in LedgerKeys :
          /\ marked[k] = "returned"
          /\ isPostProcessed(k)
          /\ marked[lost] = "threw"
          /\ ~isPostProcessed(lost)

\* C16: constructing the StorageService on an absent file creates the file
\* as an empty list and starts with an empty ledger, unless the creating
\* write throws and construction fails with it; on a file whose content does
\* not parse as a list construction throws and leaves the file alone, and a
\* service whose construction threw performs no ledger operation.  A
\* constructed service holds exactly the keys of the file.
C16_RefusesUnparsableStore ==
    [][/\ (service = "down" /\ service' # "down")
          => /\ ~exists
                => \/ /\ service' = "up"
                      /\ exists'
                      /\ disk' = Disk(TRUE, {})
                      /\ processedPosts' = {}
                   \/ /\ service' = "failed"
                      /\ ~(exists' /\ disk'.valid)
             /\ (exists /\ ~disk.valid)
                => (service' = "failed" /\ exists' /\ disk' = disk)
             /\ service' = "up"
                => (exists' /\ disk'.valid /\ processedPosts' = disk'.keys)
       /\ service = "failed"
          => (service' = "down" /\ disk' = disk /\ marked' = marked)]_vars

\* A start is refused on a file that a failed write left unparsable, although
\* marks of an earlier process had returned normally.
C16_Witness ==
    /\ service = "failed"
    /\ exists
    /\ ~disk.valid
    /\ \E k \in LedgerKeys : marked[k] = "returned"

(***************************************************************************)
(* Claims about the fuzzy matcher, checked under SpecMatcher.              *)
(***************************************************************************)
MatchReturned == call.fn = "findBestAudioMatch" /\ ret.returned

\* The composite score of candidate i of the call.
ScoreOf(i) == TotalScore(call.tracks[i], call.targetArtist, call.targetTitle)

\* C17: findBestAudioMatch returns no match, or a candidate of the list whose
\* composite score no other candidate exceeds and which is at least 0.70;
\* when every candidate scores below 0.70 it returns no match.
C17_BestCandidateAtThreshold ==
    MatchReturned =>
        /\ \/ ret.value = NoTrack
           \/ \E i \in 1..Len(call.tracks) :
                 /\ ret.value = call.tracks[i]
                 /\ ScoreAtLeastThreshold(ScoreOf(i))
                 /\ \A j \in 1..Len(call.tracks) : ~ScoreLess(ScoreOf(i), ScoreOf(j))
        /\ (\A i \in 1..Len(call.tracks) : ~ScoreAtLeastThreshold(ScoreOf(i)))
              => ret.value = NoTrack

\* The second of two candidates is returned: it scores exactly 0.70 and the
\* first scores less.
C17_Witness ==
    /\ MatchReturned
    /\ Len(call.tracks) = 2
    /\ ret.value = call.tracks[2]
    /\ ScoreOf(2).num * ScoreScale = MatchThreshold * ScoreOf(2).den
    /\ ScoreLess(ScoreOf(1), ScoreOf(2))

SimilarityReturned == call.fn = "calculateStringSimilarity" /\ ret.returned

\* C20: the similarity of a string with itself is 1, be it empty or not; of
\* a non-empty string with the empty one it is 0, in either order; and every
\* similarity lies between 0 and 1.
C20_SimilarityBounds ==
    SimilarityReturned =>
        /\ ret.value.den > 0
        /\ 0 <= ret.value.num /\ ret.value.num <= ret.value.den
        /\ call.str1 = call.str2 => ret.value.num = ret.value.den
        /\ (call.str1 = <<>>) # (call.str2 = <<>>) => ret.value.num = 0

\* Two different non-empty strings, neither containing the other, got a
\* similarity strictly between 0 and 1 from their edit distance.
C20_Witness ==
    /\ SimilarityReturned
    /\ ~Includes(call.str1, call.str2) /\ ~Includes(call.str2, call.str1)
    /\ 0 < ret.value.num /\ ret.value.num < ret.value.den

(***************************************************************************)
(* Claims about the extractors, checked under SpecExtractor.               *)
(***************************************************************************)
\* The attachment at position i was put into the animation list.
InAnimations(i) ==
    \E n \in 1..Len(ret.first.gifUrls.list) : ret.first.gifUrls.list[n] = i

\* The attachment at position i was put into the generic-document list.
InDocuments(i) ==
    \E n \in 1..Len(ret.first.documentAttachments.list) :
        ret.first.documentAttachments.list[n].url = i

\* ext is "gif", or the subtype is 3, or the title ends with ".gif" in any case.
LooksLikeGif(a) ==
    \/ a.ext = "gif"
    \/ a.doctype = GifDocType
    \/ EndsWith(toLowerCase(a.title), GifSuffix)

\* C18 as stated: every attachment of type doc is in exactly one of the two
\* lists.
C18_EveryDocInOneList ==
    ret.returned =>
        \A i \in 1..Len(call.post.attachments) :
            call.post.attachments[i].type = "doc" => (InAnimations(i) # InDocuments(i))

\* C18: every attachment of type doc that carries its doc object is in
\* exactly one of the animation list and the generic-document list, and it
\* is in the animation list exactly when it looks like a GIF; an attachment
\* of type doc without the doc object is in neither list.
C18_DocWithObjectInOneList ==
    ret.returned =>
        \A i \in 1..Len(call.post.attachments) :
            LET a == call.post.attachments[i]
            IN  a.type = "doc" =>
                    IF a.nested
                    THEN /\ InAnimations(i) # InDocuments(i)
                         /\ InAnimations(i) <=> LooksLikeGif(a)
                    ELSE ~InAnimations(i) /\ ~InDocuments(i)

\* A document told to be a GIF by its upper-case title alone stands beside a
\* PDF: the first is in the animation list, the second in the document list.
C18_Witness ==
    /\ ret.returned
    /\ \E i, j \in 1..Len(call.post.attachments) :
          /\ call.post.attachments[i].title = TitleGifUpper
          /\ call.post.attachments[i].ext # "gif"
          /\ InAnimations(i) /\ ~InDocuments(i)
          /\ call.post.attachments[j].ext = "pdf"
          /\ InDocuments(j) /\ ~InAnimations(j)

\* C19: on an item none of whose attachments lacks a nested field, the five
\* extractors give the same lists the second time as the first, also when
\* two renditions of a photo have the same area.
C19_SecondExtractionSame ==
    (ret.returned /\ ret.runs = 2 /\ WellFormed(call.post)) => ret.second = ret.first

\* Both runs are done on an item with a photo whose two largest renditions
\* have the same area, and the earlier of them was picked.
C19_Witness ==
    /\ ret.returned
    /\ ret.runs = 2
    /\ WellFormed(call.post)
    /\ \E i \in 1..Len(call.post.attachments) :
          LET a == call.post.attachments[i]
          IN  /\ a.type = "photo"
              /\ Len(a.sizes) >= 2
              /\ Area(a.sizes[1]) = Area(a.sizes[2])
              /\ ret.second.photoUrls.list = ret.first.photoUrls.list
              /\ \E n \in 1..Len(ret.first.photoUrls.list) : ret.first.photoUrls.list[n] = i

(***************************************************************************)
(* Claims about failures inside one item, checked under Spec.              *)
(***************************************************************************)
\* The request is the fallback message: text followed by the error marker.
IsFallback(c) ==
    /\ c.method = "sendMessage"
    /\ c.caption # <<>>
    /\ c.caption[Len(c.caption)] = ErrorMarkerTok

\* C21: a request of an item that fails is the last of its planned units: it
\* is followed by nothing, or by one fallback sendMessage that carries the
\* composed text and the error marker; the fallback is sent exactly when the
\* failed request was the first, so that no successful request had taken the
\* text; and nothing follows the fallback, whether it fails or not.
C21_OneFallbackAfterFailure ==
    \A w \in Invocations :
        \A i \in 1..Len(calls[w]) :
            LET c == calls[w][i]
            IN  /\ IsFallback(c)
                      => /\ i = 2 /\ i = Len(calls[w])
                         /\ calls[w][1].result = "failed"
                         /\ c.caption = calls[w][1].caption \o <<ErrorMarkerTok>>
                         /\ c.url = NoUrl /\ c.media = <<>>
                /\ (c.result = "failed" /\ ~IsFallback(c))
                      => /\ \A j \in 1..(i - 1) : calls[w][j].result = "ok"
                         /\ IF i = 1
                            THEN Len(calls[w]) = 2 /\ IsFallback(calls[w][2])
                            ELSE Len(calls[w]) = i /\ pc[w] = "returned"
                /\ (c.result = "failed" /\ IsFallback(c))
                      => (pc[w] = "returned" /\ outcome[w] = "dispatched" /\ ~threw[w])

\* The photo of an item with a photo and an animation failed, the fallback
\* failed too, and processPost has returned without sending the animation.
C21_Witness ==
    \E w \in Invocations :
        /\ pc[w] = "returned"
        /\ Len(photoUrls[w]) >= 1 /\ Len(gifUrls[w]) >= 1
        /\ Len(calls[w]) = 2
        /\ calls[w][1].result = "failed"
        /\ IsFallback(calls[w][2]) /\ calls[w][2].result = "failed"

\* C22 as stated: when an extractor throws on a malformed attachment of an
\* item that is neither seen nor pinned, the item is dispatched all the same:
\* a request is issued whose caption starts with the item's text and its
\* source link, and when every send succeeds each animation of the item (the
\* animation extractor never throws) is sent.
C22_MalformedFieldAloneSkipped ==
    \A w \in Invocations :
        (Processed(w) /\ ~WellFormed(cur[w]))
            => /\ calls[w] # <<>>
               /\ IsPrefix(OrigText(cur[w]) \o <<PostLinkTok(cur[w])>>, calls[w][1].caption)
               /\ AllSent(w)
                     => UrlsOf(CallsOf(w, "sendAnimation")) = getGifAttachments(cur[w])

\* C23 as stated: once every request of a dispatched item has succeeded,
\* each of its audio references has either a sendAudio request with its URL
\* or, when it is left without URL (a missing artist or title included), a
\* line with its artist and title in the text of the first request.
C23_EveryAudioRefSentOrLine ==
    \A w \in Invocations :
        (Processed(w) /\ outcome[w] = "dispatched" /\ AllSent(w))
            => \A j \in 1..Len(processedAttachments[w]) :
                  LET audio == processedAttachments[w][j]
                  IN  IF HasUrl(audio.url)
                      THEN \E c \in Range(CallsOf(w, "sendAudio")) : c.url = audio.url
                      ELSE /\ calls[w] # <<>>
                           /\ AudioLineTok(audio) \in Range(calls[w][1].caption)

(***************************************************************************)
(* Claims about a failed save of the ledger, checked under SpecBatch.      *)
(***************************************************************************)
\* processPost of invocation w returns in this step with the save of
\* markPostAsProcessed having thrown.
SaveFailed(w) ==
    /\ pc[w] \in {"loop", "sending", "fallback"}
    /\ pc'[w] = "returned"
    /\ caught'[w]
    /\ outcome'[w] \in {"dispatched", "skippedPinned"}

\* What a failed save leaves of the mark, whatever becomes of the file.
MarkSurvives(w) ==
    /\ PostKey(cur'[w]) \in processedPosts'
    /\ ~threw'[w]
    /\ queue'[w] = queue[w]

\* C24 as stated: when the save inside markPostAsProcessed fails, the key
\* is in the in-memory set and stays there, no later processing of a key of
\* the set issues a request, processPost returns normally so that the batch
\* goes on, and the storage file is as it was before the call.
C24_FailedPersistLeavesStore ==
    [][/\ \A w \in Invocations : SaveFailed(w) => (MarkSurvives(w) /\ disk' = disk)
       /\ processedPosts \subseteq processedPosts'
       /\ \A k \in BatchKeys : k \in processedPosts => dispatches'[k] = dispatches[k]]_vars

\* C24, amended: as above, but the storage file is either as it was before
\* the call or, when writeFileSync failed after it had opened the file for
\* writing, left truncated: content that does not parse.
C24_FailedPersistKeepsMark ==
    [][/\ \A w \in Invocations :
             SaveFailed(w) => (MarkSurvives(w) /\ disk' \in {disk, Disk(FALSE, {})})
       /\ processedPosts \subseteq processedPosts'
       /\ \A k \in BatchKeys : k \in processedPosts => dispatches'[k] = dispatches[k]]_vars

\* A later cycle meets an item that was dispatched once and whose save
\* failed: its key is in the set and not in the file.
C24_Witness ==
    \E w \in Invocations :
        /\ pc[w] = "loop"
        /\ queue[w] # <<>>
        /\ \E o \in OwnerIds :
              /\ <<o, Head(queue[w])>> \in processedPosts
              /\ <<o, Head(queue[w])>> \notin disk.keys
              /\ dispatches[<<o, Head(queue[w])>>] = 1

(***************************************************************************)
(* Termination of a cycle.  The steps processNewPosts takes by itself are  *)
(* taken whenever they can be: the continuation of a settled await runs.   *)
(* The answer to a request comes from the network; no request is given a   *)
(* timeout, so nothing makes an answer arrive.                             *)
(***************************************************************************)
\* The steps between two awaits of a cycle over a batch.
OwnStep(w) ==
    \/ LoopAdvance(w)
    \/ FinishCycle(w)
    \/ SkipSeen(w)
    \/ SkipPinned(w)
    \/ BeginPostBatch(w)

SpecBatchLive ==
    InitBatch /\ [][NextBatch]_vars /\ \A w \in Invocations : WF_vars(OwnStep(w))

\* C25 as stated: a cycle that was started ends, whatever the network does:
\* processNewPosts returns or throws, and every item of its batch has been
\* skipped, dispatched or failed.
C25_CycleTerminates ==
    \A w \in Invocations : (pc[w] # "idle") ~> (pc[w] = "idle")

(***************************************************************************)
(* normalizeString on its own: findBestAudioMatch normalizes the title it  *)
(* looks for and the title of a candidate.                                 *)
(***************************************************************************)
TitleChars == {"a", "ya", "YA", "_", "!", " "}

Titles == SeqsUpTo(TitleChars, MaxTitle)

NormalizeCall(targetTitle, title) ==
    [fn |-> "normalizeString", targetTitle |-> targetTitle, title |-> title]

NormalizeInit ==
    /\ disk = Disk(TRUE, {})
    /\ processedPosts = {}
    /\ exists = TRUE
    /\ service = "up"
    /\ IdleOver(Invocations, AllKeys)
    /\ ret = NotReturned
    /\ \E targetTitle, title \in Titles : call = NormalizeCall(targetTitle, title)

\* normalizedTargetTitle and normalizedTitle of findBestAudioMatch.
NormalizeTitles ==
    /\ call.fn = "normalizeString"
    /\ ~ret.returned
    /\ Returns([normalizedTargetTitle |-> normalizeString(call.targetTitle),
                normalizedTitle |-> normalizeString(call.title)])

NormalizeNext == NormalizeTitles

SpecNormalize == NormalizeInit /\ [][NormalizeNext]_vars

Letters == AsciiLower \cup AsciiUpper \cup CyrLower \cup CyrUpper

\* A string lowercased, without the characters that are neither letters,
\* digits nor whitespace, its whitespace collapsed and trimmed.
LettersDigitsSpaces(str) ==
    Trim(CollapseSpaces(FilterSeq(toLowerCase(str), Letters \cup Digits \cup WhiteSpace)))

\* C26 as stated: normalizeString returns its argument lowercased, without
\* exactly the characters that are neither letters, digits nor whitespace
\* (Cyrillic letters are kept, the underscore is removed), with whitespace
\* collapsed and trimmed; so two titles whose letters differ do not both
\* normalize to the empty string.
C26_KeepsEveryLetter ==
    (call.fn = "normalizeString" /\ ret.returned)
        => /\ ret.value.normalizedTargetTitle = LettersDigitsSpaces(call.targetTitle)
           /\ ret.value.normalizedTitle = LettersDigitsSpaces(call.title)
           /\ FilterSeq(call.targetTitle, Letters) # FilterSeq(call.title, Letters)
                 => ~(ret.value.normalizedTargetTitle = <<>> /\ ret.value.normalizedTitle = <<>>)

(***************************************************************************)
(* Claims about the audio lookup, checked under Spec.                      *)
(***************************************************************************)
\* The positions of the audio references findAudioTrack was called for.
LookedUp(w) == {lookups[w][k].index : k \in 1..Len(lookups[w])}

\* findAudioTrack of the reference awaited by invocation w ends in an error:
\* the general search is asked and fails.
LookupErrs(w) ==
    /\ pc[w] = "lookup"
    /\ AsksGeneralSearch(inflight[w].artist, inflight[w].title, inflight[w].r1)
    /\ ~inflight[w].r2.ok

\* C27: findAudioTrack is called for a reference exactly when it has no URL
\* and has an artist and a title, one call per such reference in source
\* order; when a call ends in an error the reference is pushed as it is,
\* without URL, processPost does not catch anything, the loop goes on with
\* the next reference, and after the last one the first request is issued
\* unless getLinkAttachments throws.
C27_LookupOnlyWhenNeeded ==
    [][\A w \in Invocations :
          /\ \A j \in 1..Len(processedAttachments[w]) :
                /\ j \in LookedUp(w) <=> NeedsLookup(audioAttachments[w][j])
                /\ processedAttachments[w][j].artist = audioAttachments[w][j].artist
                /\ processedAttachments[w][j].title = audioAttachments[w][j].title
          /\ \A k \in 1..(Len(lookups[w]) - 1) : lookups[w][k].index < lookups[w][k + 1].index
          /\ pc[w] = "lookup"
                => /\ NeedsLookup(audioAttachments[w][Len(processedAttachments[w]) + 1])
                   /\ inflight[w].artist = audioAttachments[w][Len(processedAttachments[w]) + 1].artist
                   /\ inflight[w].title = audioAttachments[w][Len(processedAttachments[w]) + 1].title
          /\ LookupErrs(w)
                => LET i == Len(processedAttachments[w]) + 1
                   IN  /\ Len(processedAttachments'[w]) >= i
                       /\ processedAttachments'[w][i] = audioAttachments[w][i]
                       /\ Len(lookups'[w]) = Len(lookups[w]) + 1
                       /\ lookups'[w][Len(lookups'[w])].index = i
                       /\ IF \E j \in (i + 1)..Len(audioAttachments[w]) :
                                 NeedsLookup(audioAttachments[w][j])
                          THEN pc'[w] = "lookup"
                          ELSE /\ Len(processedAttachments'[w]) = Len(audioAttachments[w])
                               /\ IF LinkThrows(cur[w])
                                  THEN pc'[w] = "returned" /\ calls'[w] = <<>>
                                  ELSE /\ pc'[w] = "sending" /\ ~caught'[w]
                                       /\ Len(calls'[w]) = 1]_vars

\* The first of two lookups ended in an error; the second reference was
\* looked up and resolved all the same, and the item was dispatched with an
\* audio unit for it.
C27_Witness ==
    \E w \in Invocations :
        /\ pc[w] = "returned" /\ outcome[w] = "dispatched" /\ AllSent(w)
        /\ Len(lookups[w]) = 2
        /\ lookups[w][1].failed
        /\ lookups[w][2].reaches
        /\ ~HasUrl(processedAttachments[w][1].url)
        /\ CallsOf(w, "sendAudio") # <<>>

(***************************************************************************)
(* Claims about the source item, checked under SpecExtractor.              *)
(***************************************************************************)
\* C28 as stated: running the extractors leaves the post as it was fetched:
\* its attachment list and every nested field, the order of each photo's
\* sizes included.
C28_ExtractionLeavesItem ==
    [][call'.post = call.post]_vars

(***************************************************************************)
(* Claims about the document units, checked under Spec.                    *)
(***************************************************************************)
\* C29: the sendDocument requests of an item are its generic documents in
\* source order, one request per document, all of them once every request
\* has succeeded; a document request that is the first request of the item
\* carries the composed text, every other one the line naming its own title,
\* so only the first document request can carry the text.
C29_DocumentsOneByOne ==
    \A w \in Invocations :
        LET dc == CallsOf(w, "sendDocument")
            docs == getDocumentAttachments(cur[w])
        IN  /\ Len(dc) <= Len(docs)
            /\ \A i \in 1..Len(dc) :
                  /\ dc[i].url = docs[i].url
                  /\ dc[i].media = <<>>
                  /\ dc[i].caption =
                        IF i = 1 /\ calls[w][1].method = "sendDocument"
                        THEN ComposedText(w)
                        ELSE <<DocTitleTok(docs[i].title)>>
                  /\ i > 1 => dc[i].caption # ComposedText(w)
            /\ (Processed(w) /\ outcome[w] = "dispatched" /\ AllSent(w)) => Len(dc) = Len(docs)

\* Two documents and nothing before them: the first carried the text, the
\* second the line with its title.
C29_Witness ==
    \E w \in Invocations :
        LET dc == CallsOf(w, "sendDocument")
        IN  /\ Processed(w) /\ AllSent(w)
            /\ Len(calls[w]) = 2 /\ Len(dc) = 2
            /\ dc[1].caption = ComposedText(w)
            /\ dc[2].caption = <<DocTitleTok(getDocumentAttachments(cur[w])[2].title)>>

(***************************************************************************)
(* Cycles, one after the other, over fetches that can hold an item twice.  *)
(***************************************************************************)
\* The batches of Batches, and those in which wall.get returns one id twice.
RepeatBatches == Batches \cup {<<i, i>> : i \in BatchIds}

StartCycleRepeat(w) == StartFrom(w, RepeatBatches)

NextRepeat ==
    \E w \in Invocations :
        \/ StartCycleRepeat(w)
        \/ FetchFail(w)
        \/ FetchOk(w)
        \/ LoopAdvance(w)
        \/ FinishCycle(w)
        \/ SkipSeen(w)
        \/ SkipPinned(w)
        \/ BeginPostBatch(w)
        \/ LookupReturn(w)
        \/ SendOkNext(w)
        \/ SendOkDone(w)
        \/ SendFailFallback(w)
        \/ SendFailDone(w)
        \/ FallbackReturn(w)

SpecRepeat == InitBatch /\ [][NextRepeat]_vars

\* C30: in one process whose cycles do not overlap, a request is issued in
\* at most one processing of a key: a key for which a request was issued is
\* in the ledger, or its one processing is still under way, and a processing
\* that meets a key of the ledger issues nothing.
C30_AtMostOneDispatchPerKey ==
    \A k \in BatchKeys :
        /\ dispatches[k] <= 1
        /\ dispatches[k] = 1
              => \/ k \in processedPosts
                 \/ \E w \in Invocations : /\ PostKey(cur[w]) = k
                                     /\ pc[w] \in {"sending", "fallback"}
                                     /\ calls[w] # <<>>
        /\ \A w \in Invocations :
              (PostKey(cur[w]) = k /\ outcome[w] = "skippedSeen") => calls[w] = <<>>

\* The second copy of an item in one batch is skipped after the first was
\* dispatched with a failed send and a failed fallback.
C30_Witness ==
    \E w \in Invocations :
        /\ pc[w] = "returned" /\ outcome[w] = "skippedSeen"
        /\ Len(posts[w]) = 2 /\ posts[w][1] = posts[w][2]
        /\ queue[w] = <<posts[w][1]>>
        /\ dispatches[PostKey(cur[w])] = 1
        /\ PostKey(cur[w]) \notin disk.keys

(***************************************************************************)
(* Claims about unmarked items, checked under SpecBatch.                   *)
(***************************************************************************)
\* C31: when processPost has returned and the key of its item is not in the
\* ledger, no request was issued for the item in that processing: an
\* extractor threw and processPost caught it; and a key that is not in the
\* ledger has had no request issued in any earlier processing, unless its
\* one processing is still sending.
C31_UnmarkedIssuedNothing ==
    /\ \A w \in Invocations :
          (pc[w] = "returned" /\ PostKey(cur[w]) \notin processedPosts)
              => /\ calls[w] = <<>>
                 /\ outcome[w] = "failed" /\ caught[w]
                 /\ ~WellFormed(cur[w])
    /\ \A k \in BatchKeys :
          (k \notin processedPosts /\ dispatches[k] > 0)
              => \E w \in Invocations : /\ PostKey(cur[w]) = k
                                        /\ pc[w] \in {"sending", "fallback"}

\* An item whose extractor threw is left unmarked with nothing sent, after
\* the item before it in the batch was dispatched.
C31_Witness ==
    \E w \in Invocations :
        /\ pc[w] = "returned" /\ outcome[w] = "failed"
        /\ PostKey(cur[w]) \notin processedPosts
        /\ calls[w] = <<>>
        /\ dispatches[PostKey(cur[w])] = 0
        /\ Len(posts[w]) = 2 /\ queue[w] = <<cur[w].id>>
        /\ \E k \in BatchKeys : dispatches[k] = 1 /\ k \in processedPosts

=============================================================================
